---------------------------- MODULE Spec2Model ----------------------------
(***************************************************************************)
(* Subscription entitlement service of pikabook_subscription: the          *)
(* checkSubscriptionStatus callable (cache / refresh controller), the      *)
(* syncPurchaseInfo callable, the App Store notification webhook and the   *)
(* store adapter they share, modelled as a state machine over the users    *)
(* collection, the in-process duplicate-call map and the wall clock.       *)
(*                                                                         *)
(* The clock counts seconds: every time and duration of the code, given    *)
(* there in milliseconds, is divided by 1000.  The clock advances in steps *)
(* of Tick, half the duplicate window, so that ages equal to, one step     *)
(* below and one step above the two windows (CACHE_DURATION_MS,            *)
(* DUPLICATE_CALL_PREVENTION_MS) all occur.                                *)
(*                                                                         *)
(* JavaScript values: a field that is absent from an object is absent from *)
(* the record's DOMAIN; null is NullStr for string fields and JsNull for   *)
(* date fields; a date field holds Num(ms) (a number) or Str(ms) (the      *)
(* decimal string of ms), since the code stores both.                      *)
(*                                                                         *)
(* Pass-through fields that no decision reads (purchaseDate,               *)
(* appAccountToken, environment, hasFamilySharedSubscription,              *)
(* subscriptionStartDate, bannerMetadata) are left out of the records.     *)
(***************************************************************************)
EXTENDS Integers, Sequences, FiniteSets, TLC

VARIABLES
  now,                 \* Date.now()
  users,               \* Firestore collection "users": uid -> document
  email,               \* request.auth.token.email of each uid
  userCallTimestamps,  \* the module-level Map of checkSubscriptionStatus
  lastRequestAt,       \* history: when each uid last called checkSubscriptionStatus
  resp                 \* the response of the last handler that ran at `now`

vars == <<now, users, email, userCallTimestamps, lastRequestAt, resp>>

---------------------------------------------------------------------------
(* Bounds of the model *)

\* number of clock steps explored
MaxTicks == 5

---------------------------------------------------------------------------
(* Program constants *)

\* 10 * 60 * 1000 ms
CACHE_DURATION_MS == 10 * 60

\* 5 * 60 * 1000 ms
DUPLICATE_CALL_PREVENTION_MS == 5 * 60

\* one clock step
TickMs == DUPLICATE_CALL_PREVENTION_MS \div 2

\* the time of the initial state
StartTime == TickMs

\* Entitlement
FREE == "free"
TRIAL == "trial"
PREMIUM == "premium"

\* SubscriptionStatus
ACTIVE == "active"
CANCELLING == "cancelling"
CANCELLED == "cancelled"
EXPIRED == "expired"
REFUNDED == "refunded"
NEVER_SUBSCRIBED == "never_subscribed"

---------------------------------------------------------------------------
(* JavaScript values *)

NullStr == "null"

JsNull == [type |-> "null", value |-> 0]

Num(n) == [type |-> "number", value |-> n]

\* Number.prototype.toString(): the decimal string of n
Str(n) == [type |-> "string", value |-> n]

\* parseInt of a number or of a decimal string
parseInt(v) == v.value

Has(r, k) == k \in DOMAIN r

Get(r, k, default) == IF k \in DOMAIN r THEN r[k] ELSE default

\* { ...a, ...b }
Spread(a, b) ==
  [k \in (DOMAIN a) \cup (DOMAIN b) |-> IF k \in DOMAIN b THEN b[k] ELSE a[k]]

Without(r, ks) == [k \in (DOMAIN r) \ ks |-> r[k]]

\* String.prototype.includes on a product id, held as its dot-separated words
includes(productId, word) == \E i \in 1..Len(productId) : productId[i] = word

---------------------------------------------------------------------------
(* Decoded transactions (the payload of a signed transaction) *)

NoId == ""
NoDate == 0
NoOffer == 0

Uids == {"u1", "u2"}

TransactionIds == {"t1", "t2"}

OriginalTransactionIds == {"o1"}

MonthlyProduct == <<"com", "pikabook", "premium", "monthly">>
YearlyProduct == <<"com", "pikabook", "premium", "yearly">>
OtherProduct == <<"com", "pikabook", "lifetime">>

ProductIds == {MonthlyProduct, YearlyProduct, OtherProduct}

\* expiresDate: absent, or a time that the clock reaches and passes
ExpiresDates == {NoDate, StartTime + 2 * TickMs, StartTime + 4 * TickMs}

\* offerType: absent, 1 (introductory offer), 5 (the value the history scan tests)
OfferTypes == {NoOffer, 1, 5}

RevocationDates == {NoDate, StartTime}

\* the value of the APPSTORE_BUNDLE_ID secret
APPSTORE_BUNDLE_ID == "com.pikabook.app"

Transactions ==
  [transactionId : TransactionIds,
   originalTransactionId : OriginalTransactionIds,
   productId : ProductIds,
   expiresDate : ExpiresDates,
   offerType : OfferTypes,
   revocationDate : RevocationDates,
   bundleId : {APPSTORE_BUNDLE_ID}]

---------------------------------------------------------------------------
(* utils/dates.js and utils/testAccounts.js *)

\* 24 * 60 * 60 * 1000 ms
DayMs == 24 * 60 * 60

\* setFullYear(getFullYear() + years), a year taken as 365 days
getDateAfterYears(t, years) == t + years * 365 * DayMs

getDateAfterDays(t, days) == t + days * DayMs

getDateBeforeDays(t, days) == t - days * DayMs

\* an e-mail address is <<local part, domain>>; a token without e-mail is <<>>
NoEmail == <<>>

TestEmail(local) == <<local, "pikabook.com">>

\* the null object
Null == [null |-> TRUE]

INTERNAL_TEST_ACCOUNTS(t) ==
  [e \in {TestEmail("admin"), TestEmail("trial"), TestEmail("trial-cancelled"),
          TestEmail("trial-to-pre"), TestEmail("premium-cancelled"),
          TestEmail("premium-expired"), TestEmail("premium-grace"),
          TestEmail("refunded")} |->
     CASE e = TestEmail("admin") ->
            [entitlement |-> PREMIUM, subscriptionStatus |-> ACTIVE,
             hasUsedTrial |-> TRUE, expirationDate |-> getDateAfterYears(t, 1),
             autoRenewEnabled |-> TRUE, subscriptionType |-> "yearly",
             originalTransactionId |-> "test_admin_transaction_001"]
       [] e = TestEmail("trial") ->
            [entitlement |-> TRIAL, subscriptionStatus |-> ACTIVE,
             hasUsedTrial |-> TRUE, expirationDate |-> getDateAfterDays(t, 7),
             autoRenewEnabled |-> TRUE, subscriptionType |-> "monthly",
             originalTransactionId |-> "test_trial_transaction_001"]
       [] e = TestEmail("trial-cancelled") ->
            [entitlement |-> TRIAL, subscriptionStatus |-> CANCELLING,
             hasUsedTrial |-> TRUE, expirationDate |-> getDateAfterDays(t, 3),
             autoRenewEnabled |-> FALSE, subscriptionType |-> "monthly",
             originalTransactionId |-> "test_trial_cancelled_transaction_001"]
       [] e = TestEmail("trial-to-pre") ->
            [entitlement |-> PREMIUM, subscriptionStatus |-> ACTIVE,
             hasUsedTrial |-> TRUE, expirationDate |-> getDateAfterDays(t, 29),
             autoRenewEnabled |-> TRUE, subscriptionType |-> "monthly",
             originalTransactionId |-> "test_trial_expired_transaction_001"]
       [] e = TestEmail("premium-cancelled") ->
            [entitlement |-> PREMIUM, subscriptionStatus |-> CANCELLING,
             hasUsedTrial |-> TRUE, expirationDate |-> getDateAfterDays(t, 15),
             autoRenewEnabled |-> FALSE, subscriptionType |-> "monthly",
             originalTransactionId |-> "test_premium_cancelled_transaction_001"]
       [] e = TestEmail("premium-expired") ->
            [entitlement |-> FREE, subscriptionStatus |-> EXPIRED,
             hasUsedTrial |-> TRUE, expirationDate |-> getDateBeforeDays(t, 3),
             autoRenewEnabled |-> FALSE, subscriptionType |-> NullStr,
             originalTransactionId |-> "test_premium_expired_transaction_001"]
       [] e = TestEmail("premium-grace") ->
            [entitlement |-> PREMIUM, subscriptionStatus |-> ACTIVE,
             hasUsedTrial |-> TRUE, expirationDate |-> getDateBeforeDays(t, 5),
             autoRenewEnabled |-> FALSE, subscriptionType |-> "monthly",
             originalTransactionId |-> "test_premium_grace_transaction_001"]
       [] OTHER ->
            [entitlement |-> FREE, subscriptionStatus |-> REFUNDED,
             hasUsedTrial |-> TRUE, expirationDate |-> getDateBeforeDays(t, 1),
             autoRenewEnabled |-> FALSE, subscriptionType |-> NullStr,
             originalTransactionId |-> "test_refunded_transaction_001"]]

\* the canned record of a test identity at time t, or Null
checkInternalTestAccount(e, t) ==
  IF e = NoEmail THEN Null
  ELSE IF e \notin DOMAIN INTERNAL_TEST_ACCOUNTS(t) THEN Null
  ELSE LET accountInfo == INTERNAL_TEST_ACCOUNTS(t)[e]
       IN  Spread(accountInfo,
                  [dataSource |-> "internal_test_account",
                   testAccountType |-> e[1],
                   expirationDate |-> Str(accountInfo.expirationDate)])

---------------------------------------------------------------------------
(* utils/subscriptionDataManager.js: the store adapter *)

\* a user document that does not exist
NoDoc(u) == [id |-> u, exists |-> FALSE]

\* the fields that hold null when they are not set
IsNullField(r, k) ==
  \/ k = "subscriptionType" /\ r[k] = NullStr
  \/ k = "expirationDate" /\ r[k] = JsNull

\* userDoc.data().subscriptionData || null
getUnifiedSubscriptionData(db, userId) ==
  IF ~db[userId].exists THEN Null
  ELSE Get(db[userId], "subscriptionData", Null)

\* the document after update({subscriptionData: cleanData}): update() sets the
\* whole field, it does not merge into the map already stored
updateUnifiedSubscriptionData(db, userId, updates, source, t) ==
  LET subscriptionData ==
        Spread(updates, [lastUpdatedAt |-> t, lastUpdateSource |-> source,
                         dataVersion |-> "v2"])
      cleanData ==
        Without(subscriptionData,
                {k \in DOMAIN subscriptionData : IsNullField(subscriptionData, k)})
  IN  [db EXCEPT ![userId] = Spread(@, [subscriptionData |-> cleanData])]

---------------------------------------------------------------------------
(* subscription/checkSubscriptionStatus.js *)

\* the resolver whose expired branch leaves the entitlement of the offer
createBasicSubscriptionInfo_ExpiredKeepsEntitlement(transactionData, t) ==
  LET expiresDate == transactionData.expiresDate
      isExpired == expiresDate > 0 /\ expiresDate < t
      isRevoked == transactionData.revocationDate # NoDate
  IN  [entitlement |->
         IF isRevoked THEN FREE
         ELSE IF transactionData.offerType = 1 THEN TRIAL ELSE PREMIUM,
       subscriptionStatus |->
         IF isRevoked THEN REFUNDED
         ELSE IF isExpired THEN EXPIRED ELSE ACTIVE,
       hasUsedTrial |-> FALSE,
       autoRenewEnabled |-> ~isRevoked /\ ~isExpired,
       subscriptionType |-> "monthly",
       expirationDate |-> Str(expiresDate),
       originalTransactionId |-> transactionData.originalTransactionId,
       lastTransactionId |-> transactionData.transactionId,
       productId |-> transactionData.productId]

\* the record resolved from one decoded transaction at time t
createBasicSubscriptionInfo(transactionData, t) ==
  LET expiresDate == transactionData.expiresDate
      isExpired == expiresDate > 0 /\ expiresDate < t
      isRevoked == transactionData.revocationDate # NoDate
      isCurrentTransactionTrial == transactionData.offerType = 1
      result ==
        [entitlement |->
           IF isRevoked \/ isExpired THEN FREE
           ELSE IF isCurrentTransactionTrial THEN TRIAL ELSE PREMIUM,
         subscriptionStatus |->
           IF isRevoked THEN REFUNDED
           ELSE IF isExpired THEN EXPIRED ELSE ACTIVE,
         hasUsedTrial |-> FALSE,
         autoRenewEnabled |-> ~isRevoked /\ ~isExpired,
         subscriptionType |->
           IF includes(transactionData.productId, "yearly") THEN "yearly"
           ELSE IF includes(transactionData.productId, "monthly") THEN "monthly"
           ELSE NullStr,
         expirationDate |-> Str(expiresDate),
         originalTransactionId |-> transactionData.originalTransactionId,
         lastTransactionId |-> transactionData.transactionId,
         productId |-> transactionData.productId]
  IN  IF transactionData.offerType # NoOffer
      THEN Spread(result, [offerType |-> transactionData.offerType])
      ELSE result

\* the stored record when it carries lastUpdatedAt, else Null
getCachedSubscriptionStatus(db, userId) ==
  LET subscriptionData == getUnifiedSubscriptionData(db, userId)
  IN  IF subscriptionData # Null /\ Has(subscriptionData, "lastUpdatedAt")
      THEN subscriptionData ELSE Null

\* the age compared with the TTL taken in the wrong unit
isCacheExpired_WrongUnit(cachedData, t) ==
  IF ~Has(cachedData, "lastUpdatedAt") THEN TRUE
  ELSE (t - cachedData.lastUpdatedAt) > CACHE_DURATION_MS * 1000

getCacheAge(cachedData, t) ==
  IF ~Has(cachedData, "lastUpdatedAt") THEN 0 ELSE t - cachedData.lastUpdatedAt

isCacheExpired(cachedData, t) ==
  IF ~Has(cachedData, "lastUpdatedAt") THEN TRUE
  ELSE (t - cachedData.lastUpdatedAt) > CACHE_DURATION_MS

\* the transaction id fetchFreshSubscriptionStatus asks the marketplace for:
\* subscriptionData.lastTransactionId || originalTransactionId, NoId when none
refreshTransactionId(db, userId) ==
  LET subscriptionData == getUnifiedSubscriptionData(db, userId)
  IN  IF subscriptionData = Null THEN NoId
      ELSE LET originalTransactionId ==
                 Get(subscriptionData, "originalTransactionId", NoId)
               lastTransactionId == Get(subscriptionData, "lastTransactionId", NoId)
           IN  IF lastTransactionId # NoId THEN lastTransactionId
               ELSE originalTransactionId

\* what appStoreServerClient.getTransactionInfo may answer for an id
RemoteFailure == [success |-> FALSE]

getTransactionInfo(transactionId) ==
  {RemoteFailure} \cup
  {[success |-> TRUE, data |-> tx] : tx \in {x \in Transactions : x.transactionId = transactionId}}

\* the fresh record, or Null (no document, no identifier, or the call failed)
fetchFreshSubscriptionStatus(db, userId, transactionResult, t) ==
  IF refreshTransactionId(db, userId) = NoId THEN Null
  ELSE IF ~transactionResult.success THEN Null
  ELSE createBasicSubscriptionInfo(transactionResult.data, t)

\* the default record with the status the webhook's conversion starts from
defaultData_ActiveStatus ==
  [entitlement |-> FREE, subscriptionStatus |-> ACTIVE,
   hasUsedTrial |-> FALSE, autoRenewEnabled |-> FALSE,
   subscriptionType |-> NullStr, expirationDate |-> JsNull]

defaultData ==
  [entitlement |-> FREE, subscriptionStatus |-> NEVER_SUBSCRIBED,
   hasUsedTrial |-> FALSE, autoRenewEnabled |-> FALSE,
   subscriptionType |-> NullStr, expirationDate |-> JsNull]

NoCall == 0

NoResp == [op |-> "none"]

\* the callable's answer, with the request (forceRefresh), what the call found
\* when it arrived (lastCallTime, previousRequest, cachedData, transactionId)
\* and what it did on the way (storeReads, remoteCall, storeWrite)
CheckResponse(u, forceRefresh, lastCallTime, dataSource, subscription, storeReads, remoteCall, storeWrite) ==
  [op |-> "checkSubscriptionStatus", uid |-> u, success |-> TRUE,
   forceRefresh |-> forceRefresh, lastCallTime |-> lastCallTime,
   previousRequest |-> lastRequestAt[u],
   cachedData |-> getCachedSubscriptionStatus(users, u),
   transactionId |-> refreshTransactionId(users, u),
   dataSource |-> dataSource, subscription |-> subscription,
   storeReads |-> storeReads, remoteCall |-> remoteCall,
   storeWrite |-> storeWrite]

\* the duplicate window applied to forced calls as well
isDuplicateCall_IgnoresForce(forceRefresh, lastCallTime, t) ==
  /\ lastCallTime # NoCall
  /\ (t - lastCallTime) < DUPLICATE_CALL_PREVENTION_MS

\* the window comparison reversed
isDuplicateCall_Reversed(forceRefresh, lastCallTime, t) ==
  /\ ~forceRefresh
  /\ lastCallTime # NoCall
  /\ (t - lastCallTime) > DUPLICATE_CALL_PREVENTION_MS

\* !forceRefresh && lastCallTime && (now - lastCallTime) < DUPLICATE_CALL_PREVENTION_MS
isDuplicateCall(forceRefresh, lastCallTime, t) ==
  /\ ~forceRefresh
  /\ lastCallTime # NoCall
  /\ (t - lastCallTime) < DUPLICATE_CALL_PREVENTION_MS

\* the handler recording the time of a suppressed call as well
subCheckSubscriptionStatus_SuppressedRecorded(userId, forceRefresh, transactionResult) ==
  LET lastCallTime == userCallTimestamps[userId]
      duplicate == isDuplicateCall(forceRefresh, lastCallTime, now)
      cachedData == getCachedSubscriptionStatus(users, userId)
      dupReads == IF duplicate THEN 1 ELSE 0
      testAccountResult == checkInternalTestAccount(email[userId], now)
      freshData == fetchFreshSubscriptionStatus(users, userId, transactionResult, now)
      remoteCall == refreshTransactionId(users, userId) # NoId
  IN  /\ lastRequestAt' = [lastRequestAt EXCEPT ![userId] = now]
      /\ IF duplicate /\ cachedData # Null
         THEN /\ resp' = CheckResponse(userId, forceRefresh, lastCallTime,
                                       "duplicate-call-prevention", cachedData,
                                       1, FALSE, FALSE)
              /\ userCallTimestamps' = [userCallTimestamps EXCEPT ![userId] = now]
              /\ UNCHANGED <<now, users, email>>
         ELSE /\ userCallTimestamps' = [userCallTimestamps EXCEPT ![userId] = now]
              /\ IF testAccountResult # Null
                 THEN /\ resp' = CheckResponse(userId, forceRefresh, lastCallTime,
                                               "test-account", testAccountResult,
                                               dupReads, FALSE, FALSE)
                      /\ UNCHANGED <<now, users, email>>
                 ELSE IF ~forceRefresh /\ cachedData # Null
                         /\ ~isCacheExpired(cachedData, now)
                 THEN /\ resp' = CheckResponse(userId, forceRefresh, lastCallTime,
                                               "cache", cachedData,
                                               dupReads + 1, FALSE, FALSE)
                      /\ UNCHANGED <<now, users, email>>
                 ELSE IF freshData # Null
                 THEN /\ users' = updateUnifiedSubscriptionData(
                                    users, userId, freshData,
                                    "checkSubscriptionStatus", now)
                      /\ resp' = CheckResponse(userId, forceRefresh, lastCallTime,
                                               IF forceRefresh THEN "force-refresh"
                                               ELSE "fresh-api",
                                               freshData,
                                               dupReads + (IF forceRefresh THEN 1 ELSE 2),
                                               TRUE, TRUE)
                      /\ UNCHANGED <<now, email>>
                 ELSE /\ resp' = CheckResponse(userId, forceRefresh, lastCallTime,
                                               "default", defaultData,
                                               dupReads + (IF forceRefresh THEN 1 ELSE 2),
                                               remoteCall, FALSE)
                      /\ UNCHANGED <<now, users, email>>

\* the callable for an authenticated caller
subCheckSubscriptionStatus(userId, forceRefresh, transactionResult) ==
  LET lastCallTime == userCallTimestamps[userId]
      duplicate == isDuplicateCall(forceRefresh, lastCallTime, now)
      cachedData == getCachedSubscriptionStatus(users, userId)
      dupReads == IF duplicate THEN 1 ELSE 0
      testAccountResult == checkInternalTestAccount(email[userId], now)
      freshData == fetchFreshSubscriptionStatus(users, userId, transactionResult, now)
      remoteCall == refreshTransactionId(users, userId) # NoId
  IN  /\ lastRequestAt' = [lastRequestAt EXCEPT ![userId] = now]
      /\ IF duplicate /\ cachedData # Null
         THEN /\ resp' = CheckResponse(userId, forceRefresh, lastCallTime,
                                       "duplicate-call-prevention", cachedData,
                                       1, FALSE, FALSE)
              /\ UNCHANGED <<now, users, email, userCallTimestamps>>
         ELSE /\ userCallTimestamps' = [userCallTimestamps EXCEPT ![userId] = now]
              /\ IF testAccountResult # Null
                 THEN /\ resp' = CheckResponse(userId, forceRefresh, lastCallTime,
                                               "test-account", testAccountResult,
                                               dupReads, FALSE, FALSE)
                      /\ UNCHANGED <<now, users, email>>
                 ELSE IF ~forceRefresh /\ cachedData # Null
                         /\ ~isCacheExpired(cachedData, now)
                 THEN /\ resp' = CheckResponse(userId, forceRefresh, lastCallTime,
                                               "cache", cachedData,
                                               dupReads + 1, FALSE, FALSE)
                      /\ UNCHANGED <<now, users, email>>
                 ELSE IF freshData # Null
                 THEN /\ users' = updateUnifiedSubscriptionData(
                                    users, userId, freshData,
                                    "checkSubscriptionStatus", now)
                      /\ resp' = CheckResponse(userId, forceRefresh, lastCallTime,
                                               IF forceRefresh THEN "force-refresh"
                                               ELSE "fresh-api",
                                               freshData,
                                               dupReads + (IF forceRefresh THEN 1 ELSE 2),
                                               TRUE, TRUE)
                      /\ UNCHANGED <<now, email>>
                 ELSE /\ resp' = CheckResponse(userId, forceRefresh, lastCallTime,
                                               "default", defaultData,
                                               dupReads + (IF forceRefresh THEN 1 ELSE 2),
                                               remoteCall, FALSE)
                      /\ UNCHANGED <<now, users, email>>

---------------------------------------------------------------------------
(* Signed envelopes: <<header, payload, signature>>; decoding never verifies *)

Garbage == [garbage |-> TRUE]

\* a well-formed envelope around a payload
Envelope(payload) == <<"header", payload, "signature">>

\* an envelope with a part missing, and one whose payload is not base64url JSON
TwoPartEnvelope == <<"header", Garbage>>
UndecodableEnvelope == <<"header", Garbage, "signature">>

\* a well-formed envelope that the marketplace did not sign
ForgedEnvelope(payload) == <<"header", payload, "forged">>

NoEnvelope == <<>>

\* the payload of a three-part envelope, or Null
decodeJWS(jws) ==
  IF Len(jws) # 3 THEN Null
  ELSE IF jws[2] = Garbage THEN Null
  ELSE jws[2]

---------------------------------------------------------------------------
(* subscription/syncPurchaseInfo.js *)

\* JavaScript truthiness of a date value: a decimal string is never empty
Truthy(v) ==
  \/ v.type = "string"
  \/ v.type = "number" /\ v.value # 0

\* the decoder without its check of transactionId
verifyAndDecodeJWS_TransactionIdOptional(jwsRepresentation) ==
  IF Len(jwsRepresentation) # 3 THEN [success |-> FALSE]
  ELSE IF jwsRepresentation[2] = Garbage THEN [success |-> FALSE]
  ELSE LET payload == jwsRepresentation[2]
       IN  IF \/ Get(payload, "originalTransactionId", NoId) = NoId
              \/ ~Has(payload, "productId")
           THEN [success |-> FALSE]
           ELSE [success |-> TRUE, data |-> payload]

verifyAndDecodeJWS(jwsRepresentation) ==
  IF Len(jwsRepresentation) # 3 THEN [success |-> FALSE]
  ELSE IF jwsRepresentation[2] = Garbage THEN [success |-> FALSE]
  ELSE LET payload == jwsRepresentation[2]
       IN  IF \/ Get(payload, "transactionId", NoId) = NoId
              \/ Get(payload, "originalTransactionId", NoId) = NoId
              \/ ~Has(payload, "productId")
           THEN [success |-> FALSE]
           ELSE [success |-> TRUE, data |-> payload]

\* the resolver without its revocation branch
analyzeJWSTransaction_NoRevocation(transaction, t) ==
  LET expiresDate == transaction.expiresDate
      isExpired == expiresDate > 0 /\ expiresDate < t
      isFreeTrial == transaction.offerType = 5 \/ transaction.offerType = 1
  IN  [entitlement |->
         IF isExpired THEN FREE ELSE IF isFreeTrial THEN TRIAL ELSE PREMIUM,
       subscriptionStatus |-> IF isExpired THEN EXPIRED ELSE ACTIVE,
       autoRenewEnabled |-> TRUE,
       subscriptionType |->
         IF includes(transaction.productId, "yearly") THEN "yearly" ELSE "monthly",
       expirationDate |-> Str(expiresDate),
       dataSource |-> "jws-only"]

\* the record resolved from the client's transaction alone at time t
analyzeJWSTransaction(transaction, t) ==
  LET expiresDate == transaction.expiresDate
      isExpired == expiresDate > 0 /\ expiresDate < t
      isFreeTrial == transaction.offerType = 5 \/ transaction.offerType = 1
      isRevoked == transaction.revocationDate # NoDate
  IN  [entitlement |->
         IF isRevoked \/ isExpired THEN FREE
         ELSE IF isFreeTrial THEN TRIAL ELSE PREMIUM,
       subscriptionStatus |->
         IF isRevoked THEN REFUNDED
         ELSE IF isExpired THEN EXPIRED ELSE ACTIVE,
       autoRenewEnabled |-> TRUE,
       subscriptionType |->
         IF includes(transaction.productId, "yearly") THEN "yearly" ELSE "monthly",
       expirationDate |-> Str(expiresDate),
       dataSource |-> "jws-only"]

\* the collection after set({subscriptionData, lastSyncMethod}, {merge: true}):
\* the document is created when missing and the map fields are merged
savePurchaseInfoToFirestore(db, userId, transaction, subscriptionData, t) ==
  LET unifiedSubscriptionData ==
        [originalTransactionId |-> transaction.originalTransactionId,
         lastTransactionId |-> transaction.transactionId,
         entitlement |-> subscriptionData.entitlement,
         subscriptionStatus |-> subscriptionData.subscriptionStatus,
         autoRenewEnabled |-> subscriptionData.autoRenewEnabled,
         subscriptionType |-> subscriptionData.subscriptionType,
         expirationDate |->
           IF Truthy(subscriptionData.expirationDate)
           THEN Num(parseInt(subscriptionData.expirationDate)) ELSE JsNull,
         lastUpdatedAt |-> t,
         lastUpdateSource |-> "syncPurchaseInfo",
         dataSource |-> subscriptionData.dataSource]
      \* ...(transaction.appAccountToken && {appAccountToken})
      withToken ==
        IF Get(transaction, "appAccountToken", NullStr) # NullStr
        THEN Spread(unifiedSubscriptionData,
                    [appAccountToken |-> transaction.appAccountToken])
        ELSE unifiedSubscriptionData
      old == IF db[userId].exists THEN db[userId] ELSE [id |-> userId, exists |-> TRUE]
      stored == Get(old, "subscriptionData", Null)
      merged == IF stored = Null THEN withToken
                ELSE Spread(stored, withToken)
  IN  [db EXCEPT ![userId] =
         Spread(old, [subscriptionData |-> merged,
                      lastSyncMethod |-> "jwsRepresentation"])]

SyncResponse(caller, userId, outcome, subscription, storeWrite) ==
  [op |-> "syncPurchaseInfo", uid |-> caller, userId |-> userId,
   outcome |-> outcome, subscription |-> subscription, storeWrite |-> storeWrite]

\* the JWS-only path of the callable (checkRealTimeStatus not set)
syncPurchaseInfo(caller, userId, jwsRepresentation) ==
  LET testAccountResult == checkInternalTestAccount(email[caller], now)
      transactionInfo == verifyAndDecodeJWS(jwsRepresentation)
      subscriptionData == analyzeJWSTransaction(transactionInfo.data, now)
  IN  IF jwsRepresentation = NoEnvelope
      THEN /\ resp' = SyncResponse(caller, userId, "invalid-argument", Null, FALSE)
           /\ UNCHANGED <<now, users, email, userCallTimestamps, lastRequestAt>>
      ELSE IF testAccountResult # Null
      THEN /\ resp' = SyncResponse(caller, userId, "test-account",
                                   testAccountResult, FALSE)
           /\ UNCHANGED <<now, users, email, userCallTimestamps, lastRequestAt>>
      ELSE IF ~transactionInfo.success
      THEN /\ resp' = SyncResponse(caller, userId, "invalid-argument", Null, FALSE)
           /\ UNCHANGED <<now, users, email, userCallTimestamps, lastRequestAt>>
      ELSE /\ users' = savePurchaseInfoToFirestore(users, userId,
                         transactionInfo.data, subscriptionData, now)
           /\ resp' = SyncResponse(caller, userId, "jws-only", subscriptionData, TRUE)
           /\ UNCHANGED <<now, email, userCallTimestamps, lastRequestAt>>

---------------------------------------------------------------------------
(* webhook/appStoreNotifications.js *)

NoSubtype == ""

\* a decoded notification; an absent subtype or renewal leaves its field out
Notification(notificationType, subtype, transactionInfo, renewal) ==
  LET data == IF renewal = Null
              THEN [signedTransactionInfo |-> transactionInfo]
              ELSE [signedTransactionInfo |-> transactionInfo,
                    signedRenewalInfo |-> Envelope(renewal)]
      base == [notificationType |-> notificationType, data |-> data]
  IN  IF subtype = NoSubtype THEN base ELSE Spread(base, [subtype |-> subtype])

determinePlanFromProduct(productId) ==
  IF includes(productId, "monthly") THEN "premium"
  ELSE IF includes(productId, "yearly") THEN "premium"
  ELSE IF includes(productId, "trial") THEN "premium"
  ELSE "free"

\* what appStoreServerClient.getTransactionHistory may answer
HistoryFailure == [success |-> FALSE]

HistoryOf(transactions) ==
  [success |-> TRUE, data |-> [signedTransactions |-> transactions]]

\* the scan of the signed transactions from index i on: a decoded payload is
\* skipped unless it has a truthy `success` field, and a payload that does not
\* decode throws, which the caller turns into false
RECURSIVE scanTrialUsage(_, _)
scanTrialUsage(transactions, i) ==
  IF i > Len(transactions) THEN FALSE
  ELSE LET decodedTransaction == decodeJWS(transactions[i])
       IN  IF decodedTransaction = Null THEN FALSE
           ELSE IF ~Get(decodedTransaction, "success", FALSE)
           THEN scanTrialUsage(transactions, i + 1)
           ELSE IF decodedTransaction.data.offerType = 5 THEN TRUE
           ELSE scanTrialUsage(transactions, i + 1)

checkTrialUsageFromHistory(historyResult) ==
  IF ~historyResult.success THEN FALSE
  ELSE scanTrialUsage(historyResult.data.signedTransactions, 1)

\* whether Timestamp.fromMillis(parseInt(expiresDate)) throws: the date is absent
timestampThrows(notificationType, transaction) ==
  /\ notificationType \in {"SUBSCRIBED", "DID_RENEW"}
  /\ transaction.expiresDate = NoDate

\* the legacy-shaped update built by the switch, or Null for an unhandled type
subscriptionUpdateFor(notificationType, subtype, transaction, renewal, currentSubscription) ==
  LET autoRenewOr(default) ==
        IF renewal # Null THEN Get(renewal, "autoRenewStatus", 0) = 1 ELSE default
      base ==
        Spread(currentSubscription,
               IF subtype = NoSubtype
               THEN [originalTransactionId |-> transaction.originalTransactionId,
                     lastNotificationType |-> notificationType]
               ELSE [originalTransactionId |-> transaction.originalTransactionId,
                     lastNotificationType |-> notificationType,
                     lastNotificationSubtype |-> subtype])
  IN  CASE notificationType = "SUBSCRIBED" ->
             Spread(base,
                    [plan |-> determinePlanFromProduct(transaction.productId),
                     status |-> "active",
                     expiryDate |-> transaction.expiresDate,
                     autoRenewStatus |-> autoRenewOr(TRUE),
                     isCancelled |-> FALSE,
                     isFreeTrial |-> transaction.offerType = 1])
        [] notificationType = "DID_RENEW" ->
             Spread(base,
                    [status |-> "active",
                     expiryDate |-> transaction.expiresDate,
                     autoRenewStatus |-> autoRenewOr(TRUE),
                     isCancelled |-> FALSE])
        [] notificationType = "DID_CHANGE_RENEWAL_STATUS" ->
             Spread(base,
                    [autoRenewStatus |-> autoRenewOr(FALSE),
                     isCancelled |-> ~autoRenewOr(FALSE)])
        [] notificationType \in {"EXPIRED", "GRACE_PERIOD_EXPIRED"} ->
             Spread(base,
                    [status |-> "expired", autoRenewStatus |-> FALSE,
                     isCancelled |-> TRUE])
        [] notificationType = "REVOKE" ->
             Spread(base,
                    [status |-> "revoked", autoRenewStatus |-> FALSE,
                     isCancelled |-> TRUE])
        [] OTHER -> Null

\* the conversion with a transaction counted as expired at its expiry instant
convertToNewStructure_ExpiredAtInstant(subscriptionUpdate, notificationType, historyResult, t) ==
  LET status == Get(subscriptionUpdate, "status", "")
      plan == Get(subscriptionUpdate, "plan", "")
      autoRenewStatus == Get(subscriptionUpdate, "autoRenewStatus", FALSE)
      isCancelled == Get(subscriptionUpdate, "isCancelled", FALSE)
      isFreeTrial == Get(subscriptionUpdate, "isFreeTrial", FALSE)
      expiryTime == Get(subscriptionUpdate, "expiryDate", 0)
      isExpired == expiryTime > 0 /\ expiryTime <= t
      entitlement1 ==
        IF ~isExpired /\ status = "active"
        THEN IF isFreeTrial THEN TRIAL
             ELSE IF plan = "premium" THEN PREMIUM ELSE FREE
        ELSE FREE
      entitlement2 ==
        IF status = "revoked" \/ status = "expired" THEN FREE ELSE entitlement1
      status2 ==
        IF status = "revoked" THEN REFUNDED
        ELSE IF status = "expired" THEN EXPIRED
        ELSE IF isCancelled /\ status = "active" THEN CANCELLING
        ELSE ACTIVE
  IN  [entitlement |->
         IF notificationType \in {"EXPIRED", "REFUND"} THEN FREE ELSE entitlement2,
       subscriptionStatus |->
         CASE notificationType = "SUBSCRIBED" -> ACTIVE
           [] notificationType = "DID_CHANGE_RENEWAL_STATUS" ->
                IF autoRenewStatus THEN ACTIVE ELSE CANCELLING
           [] notificationType = "EXPIRED" -> EXPIRED
           [] notificationType = "REFUND" -> REFUNDED
           [] OTHER -> status2,
       hasUsedTrial |->
         IF Get(subscriptionUpdate, "originalTransactionId", NoId) # NoId
         THEN checkTrialUsageFromHistory(historyResult) ELSE FALSE,
       autoRenewEnabled |-> autoRenewStatus,
       subscriptionType |-> "monthly",
       expirationDate |->
         IF Has(subscriptionUpdate, "expiryDate")
         THEN Str(subscriptionUpdate.expiryDate) ELSE JsNull]

\* the canonical fields resolved from the legacy-shaped update at time t
convertToNewStructure(subscriptionUpdate, notificationType, historyResult, t) ==
  LET status == Get(subscriptionUpdate, "status", "")
      plan == Get(subscriptionUpdate, "plan", "")
      autoRenewStatus == Get(subscriptionUpdate, "autoRenewStatus", FALSE)
      isCancelled == Get(subscriptionUpdate, "isCancelled", FALSE)
      isFreeTrial == Get(subscriptionUpdate, "isFreeTrial", FALSE)
      expiryTime == Get(subscriptionUpdate, "expiryDate", 0)
      isExpired == expiryTime > 0 /\ expiryTime < t
      entitlement1 ==
        IF ~isExpired /\ status = "active"
        THEN IF isFreeTrial THEN TRIAL
             ELSE IF plan = "premium" THEN PREMIUM ELSE FREE
        ELSE FREE
      entitlement2 ==
        IF status = "revoked" \/ status = "expired" THEN FREE ELSE entitlement1
      status2 ==
        IF status = "revoked" THEN REFUNDED
        ELSE IF status = "expired" THEN EXPIRED
        ELSE IF isCancelled /\ status = "active" THEN CANCELLING
        ELSE ACTIVE
  IN  [entitlement |->
         IF notificationType \in {"EXPIRED", "REFUND"} THEN FREE ELSE entitlement2,
       subscriptionStatus |->
         CASE notificationType = "SUBSCRIBED" -> ACTIVE
           [] notificationType = "DID_CHANGE_RENEWAL_STATUS" ->
                IF autoRenewStatus THEN ACTIVE ELSE CANCELLING
           [] notificationType = "EXPIRED" -> EXPIRED
           [] notificationType = "REFUND" -> REFUNDED
           [] OTHER -> status2,
       hasUsedTrial |->
         IF Get(subscriptionUpdate, "originalTransactionId", NoId) # NoId
         THEN checkTrialUsageFromHistory(historyResult) ELSE FALSE,
       autoRenewEnabled |-> autoRenewStatus,
       subscriptionType |-> "monthly",
       expirationDate |->
         IF Has(subscriptionUpdate, "expiryDate")
         THEN Str(subscriptionUpdate.expiryDate) ELSE JsNull]

\* a lookup whose query lost its filter when nobody matched
findUsers_Unfiltered(db, originalTransactionId) ==
  LET matching ==
        {u \in Uids : /\ db[u].exists
                      /\ \/ /\ Has(db[u], "subscriptionData")
                            /\ Get(db[u].subscriptionData, "originalTransactionId", NoId)
                                 = originalTransactionId
                         \/ /\ Has(db[u], "subscription")
                            /\ Get(db[u].subscription, "originalTransactionId", NoId)
                                 = originalTransactionId}
  IN  IF matching # {} THEN matching ELSE {u \in Uids : db[u].exists}

\* the users a lookup by originalTransactionId may return: the canonical
\* location first, the legacy subscription field when that finds nobody
findUsers(db, originalTransactionId) ==
  LET canonical ==
        {u \in Uids : /\ db[u].exists
                      /\ Has(db[u], "subscriptionData")
                      /\ Get(db[u].subscriptionData, "originalTransactionId", NoId)
                           = originalTransactionId}
      legacy ==
        {u \in Uids : /\ db[u].exists
                      /\ Has(db[u], "subscription")
                      /\ Get(db[u].subscription, "originalTransactionId", NoId)
                           = originalTransactionId}
  IN  IF canonical # {} THEN canonical ELSE legacy

\* the record written to subscriptionData by the webhook
unifiedSubscriptionData(cacheData, notificationType, subtype, transaction, t) ==
  Spread(cacheData,
         [originalTransactionId |-> transaction.originalTransactionId,
          lastTransactionId |-> transaction.transactionId,
          expirationDate |->
            IF Truthy(cacheData.expirationDate)
            THEN Num(parseInt(cacheData.expirationDate)) ELSE JsNull,
          lastUpdatedAt |-> t,
          lastUpdateSource |-> "appStoreNotifications",
          dataSource |-> "webhook-real-time",
          lastNotificationType |-> notificationType,
          lastNotificationSubtype |-> subtype])

\* the outcome of processNotification for the user the lookup returned:
\* the collection afterwards, and whether the call threw
processNotification(db, userId, notificationType, subtype, transaction, renewal, historyResult, t) ==
  LET currentSubscription ==
        IF Has(db[userId], "subscription") THEN db[userId].subscription
        ELSE [originalTransactionId |-> transaction.originalTransactionId]
      subscriptionUpdate ==
        subscriptionUpdateFor(notificationType, subtype, transaction, renewal,
                              currentSubscription)
      cacheData ==
        convertToNewStructure(subscriptionUpdate, notificationType, historyResult, t)
  IN  IF timestampThrows(notificationType, transaction)
      THEN [db |-> db, threw |-> TRUE, wrote |-> FALSE, fetched |-> FALSE]
      ELSE IF subscriptionUpdate = Null
      THEN [db |-> db, threw |-> FALSE, wrote |-> FALSE, fetched |-> FALSE]
      ELSE IF subtype = NoSubtype
      \* update() rejects a field whose value is undefined
      THEN [db |-> db, threw |-> TRUE, wrote |-> FALSE, fetched |-> TRUE]
      ELSE [db |-> [db EXCEPT ![userId] =
                      Spread(@, [subscriptionData |->
                                   unifiedSubscriptionData(cacheData, notificationType,
                                                           subtype, transaction, t)])],
            threw |-> FALSE, wrote |-> TRUE, fetched |-> TRUE]

\* the response with what the handler did; retry tells that the same request
\* had been handled just before, and before is the collection that delivery
\* found
WebhookResponse(req, status, userId, historyResult, storeWrite) ==
  [op |-> "appStoreNotifications", status |-> status, req |-> req,
   userId |-> userId, history |-> historyResult, storeWrite |-> storeWrite,
   retry |-> resp # NoResp,
   before |-> IF resp # NoResp THEN users ELSE Null]

NoUser == ""

\* the HTTP handler without its check of the method
appStoreNotifications_AnyMethod(req, historyResult) ==
  LET decodedPayload == decodeJWS(req.signedPayload)
      transactionInfo == Get(Get(decodedPayload, "data", <<>>),
                             "signedTransactionInfo", NoEnvelope)
      renewalInfo == Get(Get(decodedPayload, "data", <<>>),
                         "signedRenewalInfo", NoEnvelope)
      decodedTransaction == decodeJWS(transactionInfo)
      decodedRenewal == IF renewalInfo = NoEnvelope THEN Null ELSE decodeJWS(renewalInfo)
      notificationType == decodedPayload.notificationType
      subtype == Get(decodedPayload, "subtype", NoSubtype)
      found == findUsers(users, decodedTransaction.originalTransactionId)
      Reject(status) ==
        /\ resp' = WebhookResponse(req, status, NoUser, Null, FALSE)
        /\ UNCHANGED <<now, users, email, userCallTimestamps, lastRequestAt>>
  IN  IF req.contentType # "application/json" THEN Reject(400)
      ELSE IF req.signedPayload = NoEnvelope THEN Reject(400)
      ELSE IF decodedPayload = Null THEN Reject(400)
      ELSE IF transactionInfo = NoEnvelope THEN Reject(400)
      ELSE IF decodedTransaction = Null THEN Reject(400)
      ELSE IF decodedTransaction.bundleId # APPSTORE_BUNDLE_ID THEN Reject(400)
      ELSE IF found = {} THEN Reject(200)
      ELSE \E userId \in found :
             LET outcome == processNotification(users, userId, notificationType,
                              subtype, decodedTransaction, decodedRenewal,
                              historyResult, now)
             IN  /\ users' = outcome.db
                 /\ resp' = WebhookResponse(req,
                                            IF outcome.threw THEN 500 ELSE 200,
                                            userId,
                                            IF outcome.fetched THEN historyResult
                                            ELSE Null,
                                            outcome.wrote)
                 /\ UNCHANGED <<now, email, userCallTimestamps, lastRequestAt>>

\* the HTTP handler: req is [method, contentType, signedPayload]
appStoreNotifications(req, historyResult) ==
  LET decodedPayload == decodeJWS(req.signedPayload)
      transactionInfo == Get(Get(decodedPayload, "data", <<>>),
                             "signedTransactionInfo", NoEnvelope)
      renewalInfo == Get(Get(decodedPayload, "data", <<>>),
                         "signedRenewalInfo", NoEnvelope)
      decodedTransaction == decodeJWS(transactionInfo)
      decodedRenewal == IF renewalInfo = NoEnvelope THEN Null ELSE decodeJWS(renewalInfo)
      notificationType == decodedPayload.notificationType
      subtype == Get(decodedPayload, "subtype", NoSubtype)
      found == findUsers(users, decodedTransaction.originalTransactionId)
      Reject(status) ==
        /\ resp' = WebhookResponse(req, status, NoUser, Null, FALSE)
        /\ UNCHANGED <<now, users, email, userCallTimestamps, lastRequestAt>>
  IN  IF req.method # "POST" THEN Reject(405)
      ELSE IF req.contentType # "application/json" THEN Reject(400)
      ELSE IF req.signedPayload = NoEnvelope THEN Reject(400)
      ELSE IF decodedPayload = Null THEN Reject(400)
      ELSE IF transactionInfo = NoEnvelope THEN Reject(400)
      ELSE IF decodedTransaction = Null THEN Reject(400)
      ELSE IF decodedTransaction.bundleId # APPSTORE_BUNDLE_ID THEN Reject(400)
      ELSE IF found = {} THEN Reject(200)
      ELSE \E userId \in found :
             LET outcome == processNotification(users, userId, notificationType,
                              subtype, decodedTransaction, decodedRenewal,
                              historyResult, now)
             IN  /\ users' = outcome.db
                 /\ resp' = WebhookResponse(req,
                                            IF outcome.threw THEN 500 ELSE 200,
                                            userId,
                                            IF outcome.fetched THEN historyResult
                                            ELSE Null,
                                            outcome.wrote)
                 /\ UNCHANGED <<now, email, userCallTimestamps, lastRequestAt>>

---------------------------------------------------------------------------
(* The system: one signed-in user, the marketplace and the clock *)

RegularEmail == <<"user", "example.com">>

\* the callers of the callables
Callers == {"u1"}

CallerEmails == {RegularEmail, TestEmail("premium-grace")}

\* a transaction of the lineage o1 on the monthly product
Purchase(transactionId, offerType, expiresDate, revocationDate) ==
  [transactionId |-> transactionId, originalTransactionId |-> "o1",
   productId |-> MonthlyProduct, expiresDate |-> expiresDate,
   offerType |-> offerType, revocationDate |-> revocationDate,
   bundleId |-> APPSTORE_BUNDLE_ID]

\* the states in which the marketplace may hold and sign the user's
\* transaction t1: paid and expiring early, a trial expiring late, refunded
Marketplace ==
  {Purchase("t1", NoOffer, StartTime + 2 * TickMs, NoDate),
   Purchase("t1", 1, StartTime + 4 * TickMs, NoDate),
   Purchase("t1", NoOffer, StartTime + 4 * TickMs, StartTime)}

\* a record left by the migration script from an earlier revision's data
MigratedData ==
  [entitlement |-> TRIAL, subscriptionStatus |-> ACTIVE, hasUsedTrial |-> TRUE,
   autoRenewEnabled |-> TRUE, subscriptionType |-> "monthly",
   expirationDate |-> Num(StartTime + 2 * TickMs),
   originalTransactionId |-> "o1", lastTransactionId |-> "t1",
   lastUpdatedAt |-> StartTime, lastUpdateSource |-> "migration",
   dataVersion |-> "v2"]

\* the subscription field written by the earlier revision of the webhook
LegacySubscription ==
  [originalTransactionId |-> "o1", plan |-> "premium", status |-> "active",
   expiryDate |-> StartTime + 2 * TickMs, autoRenewStatus |-> TRUE,
   isCancelled |-> FALSE, isFreeTrial |-> FALSE]

InitialDocs(u) ==
  {NoDoc(u),
   [id |-> u, exists |-> TRUE, subscriptionData |-> MigratedData],
   [id |-> u, exists |-> TRUE, subscription |-> LegacySubscription]}

Init ==
  /\ now = StartTime
  /\ users \in {[u \in Uids |-> IF u \in Callers THEN d ELSE NoDoc(u)] :
                  d \in InitialDocs("u1")}
  /\ email \in {[u \in Uids |-> IF u \in Callers THEN e ELSE RegularEmail] :
                  e \in CallerEmails}
  /\ userCallTimestamps = [u \in Uids |-> NoCall]
  /\ lastRequestAt = [u \in Uids |-> NoCall]
  /\ resp = NoResp

\* the clock advances between two requests
Tick ==
  /\ resp = NoResp
  /\ now < StartTime + MaxTicks * TickMs
  /\ now' = now + TickMs
  /\ UNCHANGED <<users, email, userCallTimestamps, lastRequestAt, resp>>

\* the response of the handler that ran is delivered; requests are handled one
\* after the other, several of them within one clock step
Deliver ==
  /\ resp # NoResp
  /\ resp' = NoResp
  /\ UNCHANGED <<now, users, email, userCallTimestamps, lastRequestAt>>

CheckSubscriptionStatus ==
  /\ resp = NoResp
  /\ \E userId \in Callers, forceRefresh \in BOOLEAN :
    \E transactionResult \in
         IF refreshTransactionId(users, userId) = NoId THEN {RemoteFailure}
         ELSE {RemoteFailure} \cup
              {[success |-> TRUE, data |-> tx] :
                 tx \in {x \in Marketplace :
                           x.transactionId = refreshTransactionId(users, userId)}} :
        subCheckSubscriptionStatus(userId, forceRefresh, transactionResult)

SyncPurchaseInfo ==
  /\ resp = NoResp
  /\ \E caller \in Callers :
    \E jwsRepresentation \in
         {NoEnvelope, TwoPartEnvelope, UndecodableEnvelope}
           \cup {Envelope(tx) : tx \in Marketplace} :
      syncPurchaseInfo(caller, caller, jwsRepresentation)

Request(payload) ==
  [method |-> "POST", contentType |-> "application/json", signedPayload |-> payload]

\* the subtype a notification of each type carries when it carries one
SubtypeOf(notificationType) ==
  CASE notificationType = "SUBSCRIBED" -> "INITIAL_BUY"
    [] notificationType = "DID_RENEW" -> "BILLING_RECOVERY"
    [] notificationType = "DID_CHANGE_RENEWAL_STATUS" -> "AUTO_RENEW_ENABLED"
    [] notificationType = "EXPIRED" -> "VOLUNTARY"
    [] OTHER -> "UNREPORTED"

\* the purchase, renewal, expiry and refund of the trial transaction and the
\* purchase and renewal of the paid one, with a subtype and without renewal
\* info; a renewal without a subtype; auto-renew switched off
WellFormedRequests ==
  {Request(Envelope(Notification(ty, SubtypeOf(ty), Envelope(tx), Null))) :
     ty \in {"SUBSCRIBED", "DID_RENEW", "EXPIRED", "REFUND"},
     tx \in {x \in Marketplace : x.offerType = 1}}
  \cup
  {Request(Envelope(Notification(ty, SubtypeOf(ty), Envelope(tx), Null))) :
     ty \in {"SUBSCRIBED", "DID_RENEW"},
     tx \in {x \in Marketplace : x.offerType = NoOffer /\ x.revocationDate = NoDate}}
  \cup
  {Request(Envelope(Notification("DID_RENEW", NoSubtype, Envelope(tx), Null))) :
     tx \in {x \in Marketplace : x.offerType = 1}}
  \cup
  {Request(Envelope(Notification("DID_CHANGE_RENEWAL_STATUS", "AUTO_RENEW_DISABLED",
                                 Envelope(tx), [autoRenewStatus |-> 0]))) :
     tx \in {x \in Marketplace : x.offerType = 1}}

MalformedRequests ==
  {[method |-> "GET", contentType |-> "application/json",
    signedPayload |-> NoEnvelope],
   [method |-> "POST", contentType |-> "text/plain", signedPayload |-> NoEnvelope],
   Request(NoEnvelope),
   Request(UndecodableEnvelope),
   Request(Envelope(Notification("DID_RENEW", NoSubtype, NoEnvelope, Null))),
   Request(Envelope(Notification("DID_RENEW", NoSubtype, UndecodableEnvelope, Null)))}

ForeignRequests ==
  {Request(Envelope(Notification("SUBSCRIBED", "INITIAL_BUY",
                                 Envelope([tx EXCEPT !.bundleId = "com.other.app"]),
                                 Null))) :
     tx \in {x \in Marketplace : x.offerType = 1}}

\* the history fetch fails, or returns the lineage with its trial transaction
HistoryResults ==
  {HistoryFailure,
   HistoryOf(<<Envelope(Purchase("t2", 5, StartTime + 2 * TickMs, NoDate))>>)}

AppStoreNotification ==
  /\ resp = NoResp
  /\ \E req \in WellFormedRequests \cup MalformedRequests \cup ForeignRequests,
        historyResult \in HistoryResults :
       appStoreNotifications(req, historyResult)

Next ==
  \/ Tick
  \/ Deliver
  \/ CheckSubscriptionStatus
  \/ SyncPurchaseInfo
  \/ AppStoreNotification

Spec == Init /\ [][Next]_vars

TypeOK ==
  /\ now \in StartTime..(StartTime + MaxTicks * TickMs)
  /\ \A u \in Uids : users[u].id = u

---------------------------------------------------------------------------
(* The single-transaction resolvers on their own: every decoded transaction *)
(* at every clock value                                                      *)

InitResolver ==
  /\ now = StartTime
  /\ users = [u \in Uids |-> NoDoc(u)]
  /\ email = [u \in Uids |-> RegularEmail]
  /\ userCallTimestamps = [u \in Uids |-> NoCall]
  /\ lastRequestAt = [u \in Uids |-> NoCall]
  /\ resp = NoResp

ResolveForCheck ==
  /\ resp = NoResp
  /\ \E transactionData \in Transactions :
       resp' = [op |-> "createBasicSubscriptionInfo", transaction |-> transactionData,
                result |-> createBasicSubscriptionInfo(transactionData, now)]
  /\ UNCHANGED <<now, users, email, userCallTimestamps, lastRequestAt>>

ResolveForSync ==
  /\ resp = NoResp
  /\ \E transaction \in Transactions :
       resp' = [op |-> "analyzeJWSTransaction", transaction |-> transaction,
                result |-> analyzeJWSTransaction(transaction, now)]
  /\ UNCHANGED <<now, users, email, userCallTimestamps, lastRequestAt>>

\* the webhook's resolution of a purchase notification about the transaction,
\* for a user without a legacy record, the history fetch failing
ResolveForWebhook ==
  /\ resp = NoResp
  /\ \E transaction \in Transactions :
       /\ ~timestampThrows("SUBSCRIBED", transaction)
       /\ resp' = [op |-> "convertToNewStructure", transaction |-> transaction,
                   result |-> convertToNewStructure(
                                subscriptionUpdateFor("SUBSCRIBED", "INITIAL_BUY",
                                  transaction, Null,
                                  [originalTransactionId |->
                                     transaction.originalTransactionId]),
                                "SUBSCRIBED", HistoryFailure, now)]
  /\ UNCHANGED <<now, users, email, userCallTimestamps, lastRequestAt>>

NextResolver ==
  \/ Tick
  \/ Deliver
  \/ ResolveForCheck
  \/ ResolveForSync
  \/ ResolveForWebhook

SpecResolver == InitResolver /\ [][NextResolver]_vars

---------------------------------------------------------------------------
(* The webhook with every notification type; the marketplace may deliver a *)
(* notification again                                                      *)

NotificationTypes ==
  {"SUBSCRIBED", "DID_RENEW", "DID_CHANGE_RENEWAL_STATUS", "EXPIRED",
   "GRACE_PERIOD_EXPIRED", "REVOKE", "REFUND"}

\* every type about every state of the transaction, with a subtype and
\* without renewal info; auto-renew switched off and on again
TypedRequests ==
  {Request(Envelope(Notification(ty, SubtypeOf(ty), Envelope(tx), Null))) :
     ty \in NotificationTypes \ {"DID_CHANGE_RENEWAL_STATUS"}, tx \in Marketplace}
  \cup
  {Request(Envelope(Notification("DID_CHANGE_RENEWAL_STATUS",
                                 IF autoRenewStatus = 0 THEN "AUTO_RENEW_DISABLED"
                                 ELSE "AUTO_RENEW_ENABLED",
                                 Envelope(tx),
                                 [autoRenewStatus |-> autoRenewStatus]))) :
     autoRenewStatus \in {0, 1}, tx \in Marketplace}

\* a purchase notification about a lineage that no document holds
UnknownLineageRequests ==
  {Request(Envelope(Notification("SUBSCRIBED", "INITIAL_BUY",
                                 Envelope([tx EXCEPT !.originalTransactionId = "o2"]),
                                 Null))) :
     tx \in {x \in Marketplace : x.offerType = 1}}

\* a purchase notification in an envelope that the marketplace did not sign
ForgedRequests ==
  {Request(ForgedEnvelope(Notification("SUBSCRIBED", "INITIAL_BUY",
                                       ForgedEnvelope(tx), Null))) :
     tx \in {x \in Marketplace : x.offerType = 1}}

\* the document syncPurchaseInfo creates for a user who bought the paid
\* subscription at the start
SyncedDocs(u) ==
  {savePurchaseInfoToFirestore([x \in Uids |-> NoDoc(x)], u, tx,
                               analyzeJWSTransaction(tx, StartTime), StartTime)[u] :
     tx \in {x \in Marketplace : x.offerType = NoOffer /\ x.revocationDate = NoDate}}

InitWebhook ==
  /\ now = StartTime
  /\ users \in {[u \in Uids |-> IF u \in Callers THEN d ELSE NoDoc(u)] :
                  d \in InitialDocs("u1") \cup SyncedDocs("u1")}
  /\ email = [u \in Uids |-> RegularEmail]
  /\ userCallTimestamps = [u \in Uids |-> NoCall]
  /\ lastRequestAt = [u \in Uids |-> NoCall]
  /\ resp = NoResp

NotifyWebhook ==
  /\ resp = NoResp
  /\ \E req \in TypedRequests \cup ForgedRequests \cup MalformedRequests
                  \cup ForeignRequests \cup UnknownLineageRequests,
        historyResult \in HistoryResults :
       appStoreNotifications(req, historyResult)

\* the marketplace waits before it delivers the notification again
RetryLater ==
  /\ resp # NoResp
  /\ resp.op = "appStoreNotifications"
  /\ now < StartTime + MaxTicks * TickMs
  /\ now' = now + TickMs
  /\ UNCHANGED <<users, email, userCallTimestamps, lastRequestAt, resp>>

\* the marketplace delivers the notification it delivered last once more
Redeliver ==
  /\ resp # NoResp
  /\ resp.op = "appStoreNotifications"
  /\ ~resp.retry
  /\ \E historyResult \in HistoryResults :
       appStoreNotifications(resp.req, historyResult)

NextWebhook ==
  \/ Tick
  \/ Deliver
  \/ NotifyWebhook
  \/ RetryLater
  \/ Redeliver

SpecWebhook == InitWebhook /\ [][NextWebhook]_vars

---------------------------------------------------------------------------
(* A webhook delivery and a syncPurchaseInfo call for the same user, the    *)
(* webhook's read of the document and its write being two steps. resp holds *)
(* what each of the two has supplied so far and who committed last.         *)

\* the transactions as the client bought them, bound to the user's account
TokenTransactions ==
  {Spread(tx, [appAccountToken |-> "token-u1"]) : tx \in Marketplace}

NoRace ==
  [op |-> "race", userId |-> NoUser, read |-> Null, notification |-> Null,
   webhook |-> Null, sync |-> Null, readBeforeSync |-> FALSE, last |-> "none"]

Race == IF resp = NoResp THEN NoRace ELSE resp

\* processNotification up to its lookup: the user and the document it read
WebhookRead ==
  /\ resp = NoResp \/ resp.op = "race"
  /\ Race.read = Null
  /\ Race.webhook = Null
  /\ \E notificationType \in {"SUBSCRIBED", "DID_RENEW", "EXPIRED"},
        transaction \in TokenTransactions :
       \E userId \in findUsers(users, transaction.originalTransactionId) :
         /\ Race.userId \in {NoUser, userId}
         /\ resp' = [Race EXCEPT !.userId = userId,
                                 !.read = users,
                                 !.notification =
                                   [notificationType |-> notificationType,
                                    subtype |-> SubtypeOf(notificationType),
                                    transaction |-> transaction]]
  /\ UNCHANGED <<now, users, email, userCallTimestamps, lastRequestAt>>

\* the rest of processNotification: the record built from the document read
\* earlier replaces subscriptionData in the document as it is now
WebhookWrite ==
  /\ resp # NoResp
  /\ resp.op = "race"
  /\ resp.read # Null
  /\ resp.webhook = Null
  /\ LET outcome == processNotification(resp.read, resp.userId,
                                        resp.notification.notificationType,
                                        resp.notification.subtype,
                                        resp.notification.transaction,
                                        Null, HistoryFailure, now)
         written == outcome.db[resp.userId].subscriptionData
     IN  /\ outcome.wrote
         /\ users' = [users EXCEPT ![resp.userId] =
                        Spread(@, [subscriptionData |-> written])]
         /\ resp' = [resp EXCEPT !.webhook = written, !.last = "webhook"]
  /\ UNCHANGED <<now, email, userCallTimestamps, lastRequestAt>>

\* syncPurchaseInfo for a verified transaction: it reads no document and
\* commits with set(..., {merge: true})
SyncCommit ==
  /\ resp = NoResp \/ resp.op = "race"
  /\ Race.sync = Null
  /\ \E userId \in Callers, transaction \in TokenTransactions \cup Marketplace :
       LET transactionInfo == verifyAndDecodeJWS(Envelope(transaction))
           subscriptionData == analyzeJWSTransaction(transactionInfo.data, now)
           saved == savePurchaseInfoToFirestore([u \in Uids |-> NoDoc(u)], userId,
                                                transactionInfo.data,
                                                subscriptionData, now)
       IN  /\ Race.userId \in {NoUser, userId}
           /\ transactionInfo.success
           /\ users' = savePurchaseInfoToFirestore(users, userId,
                                                   transactionInfo.data,
                                                   subscriptionData, now)
           /\ resp' = [Race EXCEPT !.userId = userId,
                                   !.sync = saved[userId].subscriptionData,
                                   !.readBeforeSync = Race.read # Null,
                                   !.last = "sync"]
  /\ UNCHANGED <<now, email, userCallTimestamps, lastRequestAt>>

NextRace ==
  \/ Tick
  \/ Deliver
  \/ WebhookRead
  \/ WebhookWrite
  \/ SyncCommit

SpecRace == InitWebhook /\ [][NextRace]_vars

---------------------------------------------------------------------------
(* The callables as they are called: with or without an authenticated       *)
(* caller, for any user id, on the JWS-only and on the real-time path       *)

NoAuth == ""

\* the record after one entry of lastTransactions has been analysed at time t
analyzeLastTransaction(result, entry, t) ==
  LET transactionData == decodeJWS(entry.signedTransactionInfo)
      status == entry.status
      isFreeTrial == transactionData.offerType = 5
      expiresDate == transactionData.expiresDate
      isExpired == expiresDate > 0 /\ expiresDate < t
      typed ==
        IF includes(transactionData.productId, "yearly")
        THEN [result EXCEPT !.subscriptionType = "yearly"]
        ELSE IF includes(transactionData.productId, "monthly")
        THEN [result EXCEPT !.subscriptionType = "monthly"]
        ELSE result
  IN  IF transactionData = Null THEN result
      ELSE CASE status = 1 ->
                  [typed EXCEPT !.autoRenewEnabled = TRUE,
                                !.expirationDate = Str(expiresDate),
                                !.entitlement = IF isFreeTrial THEN TRIAL ELSE PREMIUM,
                                !.subscriptionStatus = ACTIVE]
             [] status = 2 ->
                  [typed EXCEPT !.autoRenewEnabled = FALSE,
                                !.expirationDate = Str(expiresDate),
                                !.entitlement =
                                  IF isExpired THEN FREE
                                  ELSE IF isFreeTrial THEN TRIAL ELSE PREMIUM,
                                !.subscriptionStatus =
                                  IF isExpired THEN EXPIRED ELSE CANCELLING]
             [] status \in {3, 4} ->
                  [typed EXCEPT !.autoRenewEnabled = TRUE,
                                !.expirationDate = Str(expiresDate),
                                !.entitlement = PREMIUM,
                                !.subscriptionStatus = ACTIVE]
             [] status = 5 ->
                  [typed EXCEPT !.autoRenewEnabled = FALSE,
                                !.entitlement = FREE,
                                !.subscriptionStatus = REFUNDED]
             [] OTHER -> typed

RECURSIVE analyzeFrom(_, _, _, _)
analyzeFrom(result, lastTransactions, i, t) ==
  IF i > Len(lastTransactions) THEN result
  ELSE analyzeFrom(analyzeLastTransaction(result, lastTransactions[i], t),
                   lastTransactions, i + 1, t)

\* the record resolved from the lastTransactions of the first subscription
\* group
analyzeSubscriptionStatuses(lastTransactions, t) ==
  analyzeFrom([entitlement |-> FREE, subscriptionStatus |-> ACTIVE,
               autoRenewEnabled |-> FALSE, subscriptionType |-> NullStr,
               expirationDate |-> JsNull],
              lastTransactions, 1, t)

\* the record of the real-time path; after a failed fetch it has neither a
\* subscriptionType nor an expirationDate
getCurrentSubscriptionStatus(subscriptionResult, t) ==
  IF ~subscriptionResult.success
  THEN [entitlement |-> FREE, subscriptionStatus |-> ACTIVE,
        autoRenewEnabled |-> FALSE, error |-> TRUE]
  ELSE analyzeSubscriptionStatuses(subscriptionResult.data, t)

\* the response with the request and the answer of the marketplace it met
SyncCallResponse(request, subscriptionResult, outcome, subscription, storeWrite) ==
  [op |-> "syncPurchaseInfo", uid |-> request.auth, userId |-> request.userId,
   request |-> request, statusResult |-> subscriptionResult,
   outcome |-> outcome, subscription |-> subscription, storeWrite |-> storeWrite]

\* the callable; request is [auth, userId, jwsRepresentation,
\* checkRealTimeStatus]
syncPurchaseInfoCall(request, subscriptionResult) ==
  LET transactionInfo == verifyAndDecodeJWS(request.jwsRepresentation)
      basicSubscriptionData == analyzeJWSTransaction(transactionInfo.data, now)
      subscriptionData ==
        IF request.checkRealTimeStatus
        THEN getCurrentSubscriptionStatus(subscriptionResult, now)
        ELSE basicSubscriptionData
      Fail(category) ==
        /\ resp' = SyncCallResponse(request, subscriptionResult, category, Null, FALSE)
        /\ UNCHANGED <<now, users, email, userCallTimestamps, lastRequestAt>>
  IN  IF request.auth = NoAuth THEN Fail("unauthenticated")
      ELSE IF request.jwsRepresentation = NoEnvelope \/ request.userId = NoUser
      THEN Fail("invalid-argument")
      ELSE IF checkInternalTestAccount(email[request.auth], now) # Null
      THEN /\ resp' = SyncCallResponse(request, subscriptionResult, "test-account",
                                        checkInternalTestAccount(email[request.auth], now),
                                        FALSE)
           /\ UNCHANGED <<now, users, email, userCallTimestamps, lastRequestAt>>
      ELSE IF ~transactionInfo.success THEN Fail("invalid-argument")
      \* set() rejects a field whose value is undefined
      ELSE IF ~Has(subscriptionData, "subscriptionType") THEN Fail("internal")
      ELSE /\ users' = savePurchaseInfoToFirestore(
                         users, request.userId, transactionInfo.data,
                         Spread([dataSource |-> "jws-only"], subscriptionData), now)
           /\ resp' = SyncCallResponse(request, subscriptionResult,
                                       IF request.checkRealTimeStatus
                                       THEN "jws-plus-api" ELSE "jws-only",
                                       subscriptionData, TRUE)
           /\ UNCHANGED <<now, email, userCallTimestamps, lastRequestAt>>

\* the status check as it is called; without a caller the handler's own catch
\* turns the HttpsError into an answer
subCheckSubscriptionStatusCall(auth, forceRefresh, transactionResult) ==
  IF auth = NoAuth
  THEN /\ resp' = [op |-> "subCheckSubscriptionStatus", auth |-> auth,
                   thrown |-> NullStr, success |-> FALSE,
                   error |-> "User must be authenticated", dataSource |-> "error",
                   storeReads |-> 0, remoteCall |-> FALSE, storeWrite |-> FALSE]
       /\ UNCHANGED <<now, users, email, userCallTimestamps, lastRequestAt>>
  ELSE subCheckSubscriptionStatus(auth, forceRefresh, transactionResult)

\* payloads that lack a required field
IncompletePayloads ==
  UNION {{[tx EXCEPT !.transactionId = NoId], [tx EXCEPT !.originalTransactionId = NoId],
   [k \in DOMAIN tx \ {"productId"} |-> tx[k]]} :
     tx \in {x \in Marketplace : x.offerType = 1}}

\* the caller's requests for their own document, and requests without a
\* caller, without a user id or for another user's document about the trial
SyncRequests ==
  [auth : Callers,
   userId : Callers,
   jwsRepresentation :
     {NoEnvelope, TwoPartEnvelope, UndecodableEnvelope}
       \cup {Envelope(tx) : tx \in Marketplace}
       \cup {Envelope(payload) : payload \in IncompletePayloads},
   checkRealTimeStatus : BOOLEAN]
  \cup
  [auth : {NoAuth} \cup Callers,
   userId : {NoUser} \cup Uids,
   jwsRepresentation : {Envelope(tx) : tx \in {x \in Marketplace : x.offerType = 1}},
   checkRealTimeStatus : {FALSE}]

\* what appStoreServerClient.getSubscriptionStatus may answer
StatusResults ==
  {RemoteFailure, [success |-> TRUE, data |-> <<>>]}
    \cup {[success |-> TRUE,
           data |-> <<[status |-> status, signedTransactionInfo |-> Envelope(tx)]>>] :
            status \in {1, 2, 5}, tx \in {x \in Marketplace : x.offerType = 1}}

CallSyncPurchaseInfo ==
  /\ resp = NoResp
  /\ \E request \in SyncRequests :
       \E subscriptionResult \in
            IF request.checkRealTimeStatus THEN StatusResults ELSE {RemoteFailure} :
         syncPurchaseInfoCall(request, subscriptionResult)

CallCheckSubscriptionStatus ==
  /\ resp = NoResp
  /\ \E auth \in {NoAuth} \cup Callers, forceRefresh \in BOOLEAN :
       subCheckSubscriptionStatusCall(auth, forceRefresh, RemoteFailure)

NextCallables ==
  \/ Tick
  \/ Deliver
  \/ CallSyncPurchaseInfo
  \/ CallCheckSubscriptionStatus

SpecCallables == InitWebhook /\ [][NextCallables]_vars

---------------------------------------------------------------------------
(* Two documents that hold the same subscriptionData and differ only in     *)
(* legacy locations, and the same operation applied to both                 *)

\* the lineage the status check looks up: subscriptionData first, then the
\* root-level field, then the legacy subscription field
lookupOriginalTransactionId(userData) ==
  LET canonical == Get(Get(userData, "subscriptionData", <<>>), "originalTransactionId", NoId)
      root == Get(userData, "originalTransactionId", NoId)
      legacy == Get(Get(userData, "subscription", <<>>), "originalTransactionId", NoId)
  IN  IF canonical # NoId THEN canonical
      ELSE IF root # NoId THEN root
      ELSE legacy

\* what a document may carry next to subscriptionData from earlier revisions
LegacyFields ==
  {[subscription |-> LegacySubscription],
   [subscription |-> [LegacySubscription EXCEPT !.status = "expired"]],
   [originalTransactionId |-> "o0"]}

PopulatedRecords ==
  {MigratedData} \cup {d.subscriptionData : d \in SyncedDocs("u1")}

InitPair ==
  /\ now = StartTime
  /\ \E subscriptionData \in PopulatedRecords, legacy \in LegacyFields :
       users = [u \in Uids |->
                 IF u = "u1"
                 THEN [id |-> u, exists |-> TRUE, subscriptionData |-> subscriptionData]
                 ELSE Spread([id |-> u, exists |-> TRUE,
                              subscriptionData |-> subscriptionData], legacy)]
  /\ email = [u \in Uids |-> RegularEmail]
  /\ userCallTimestamps = [u \in Uids |-> NoCall]
  /\ lastRequestAt = [u \in Uids |-> NoCall]
  /\ resp = NoResp

\* processNotification runs for each of the two documents on the same
\* notification
NotifyBoth ==
  /\ resp = NoResp
  /\ \E req \in TypedRequests, historyResult \in HistoryResults :
       LET notification == decodeJWS(req.signedPayload)
           transaction == decodeJWS(notification.data.signedTransactionInfo)
           renewal == IF Has(notification.data, "signedRenewalInfo")
                      THEN decodeJWS(notification.data.signedRenewalInfo) ELSE Null
           first == processNotification(users, "u1", notification.notificationType,
                                        notification.subtype, transaction, renewal,
                                        historyResult, now)
           second == processNotification(first.db, "u2", notification.notificationType,
                                         notification.subtype, transaction, renewal,
                                         historyResult, now)
       IN  /\ users' = second.db
           /\ resp' = [op |-> "processNotification", req |-> req,
                       wrote |-> first.wrote /\ second.wrote]
  /\ UNCHANGED <<now, email, userCallTimestamps, lastRequestAt>>

\* the refresh of the status check runs for each of the two documents on the
\* same answer of the marketplace
RefreshBoth ==
  /\ resp = NoResp
  /\ lookupOriginalTransactionId(users["u1"]) = lookupOriginalTransactionId(users["u2"])
  /\ \E transactionResult \in {RemoteFailure} \cup {[success |-> TRUE, data |-> tx] : tx \in Marketplace} :
       LET fresh(u) == fetchFreshSubscriptionStatus(users, u, transactionResult, now)
           stored(db, u) == IF fresh(u) = Null THEN db
                            ELSE updateUnifiedSubscriptionData(db, u, fresh(u), "checkSubscriptionStatus", now)
       IN  /\ users' = stored(stored(users, "u1"), "u2")
           /\ resp' = [op |-> "fetchFreshSubscriptionStatus",
                       result |-> transactionResult,
                       wrote |-> fresh("u1") # Null /\ fresh("u2") # Null]
  /\ UNCHANGED <<now, email, userCallTimestamps, lastRequestAt>>

NextPair ==
  \/ Tick
  \/ Deliver
  \/ NotifyBoth
  \/ RefreshBoth

SpecPair == InitPair /\ [][NextPair]_vars

---------------------------------------------------------------------------
(* Properties *)

CheckAnswered == resp.op = "checkSubscriptionStatus"

IsTestIdentity(u) == checkInternalTestAccount(email[u], now) # Null

\* the expiry time a record carries, 0 when it carries none
ExpirationOf(s) ==
  IF Has(s, "expirationDate") THEN parseInt(s.expirationDate) ELSE 0

StoredHasUsedTrial(u) ==
  LET subscriptionData == getUnifiedSubscriptionData(users, u)
  IN  subscriptionData # Null /\ Get(subscriptionData, "hasUsedTrial", FALSE)

\* C1: once the stored subscriptionData.hasUsedTrial of a user is true, no
\* webhook delivery, syncPurchaseInfo call or checkSubscriptionStatus refresh
\* leaves it false or absent
HasUsedTrialNeverReset ==
  [][\A u \in Uids : StoredHasUsedTrial(u) => StoredHasUsedTrial(u)']_vars

\* C2: a record that checkSubscriptionStatus returns on the fresh-cache, the
\* duplicate-suppressed or the refresh path with entitlement PREMIUM or TRIAL
\* and a non-zero expirationDate has not expired before the time of the
\* response (the claim asks for an expiry strictly later than the response)
NoLapsedAccessReturned ==
  (/\ CheckAnswered
   /\ resp.dataSource \in {"cache", "duplicate-call-prevention",
                           "fresh-api", "force-refresh"})
  => LET s == resp.subscription
     IN  (s.entitlement \in {PREMIUM, TRIAL} /\ ExpirationOf(s) # 0)
         => ExpirationOf(s) >= now

\* the document of u holds a record that syncPurchaseInfo created and no other
\* writer has touched, and no legacy subscription field
SyncCreatedRecord(u) ==
  /\ users[u].exists
  /\ Has(users[u], "lastSyncMethod")
  /\ ~Has(users[u], "subscription")
  /\ Has(users[u], "subscriptionData")
  /\ users[u].subscriptionData.lastUpdateSource = "syncPurchaseInfo"
  /\ ~Has(users[u].subscriptionData, "dataVersion")
  /\ ~Has(users[u].subscriptionData, "lastNotificationType")

NotificationOf(r) == r.req.signedPayload[2]

TransactionOf(r) == NotificationOf(r).data.signedTransactionInfo[2]

\* C3: after the webhook processes a SUBSCRIBED or DID_RENEW notification that
\* carries an unrevoked transaction expiring in the future, for a known user
\* whose record syncPurchaseInfo created, the stored entitlement is PREMIUM or
\* TRIAL and the stored subscriptionStatus is ACTIVE
RenewalKeepsAccess ==
  [][\A u \in Uids :
       (/\ SyncCreatedRecord(u)
        /\ resp'.op = "appStoreNotifications"
        /\ resp'.status = 200
        /\ resp'.userId = u
        /\ NotificationOf(resp').notificationType \in {"SUBSCRIBED", "DID_RENEW"}
        /\ TransactionOf(resp').revocationDate = NoDate
        /\ TransactionOf(resp').expiresDate > now)
       => /\ users'[u].subscriptionData.entitlement \in {PREMIUM, TRIAL}
          /\ users'[u].subscriptionData.subscriptionStatus = ACTIVE]_vars

Resolved == resp.op \in {"createBasicSubscriptionInfo", "analyzeJWSTransaction"}

\* C4: for every transaction that carries a revocationDate, both
\* single-transaction resolvers resolve entitlement FREE and subscriptionStatus
\* REFUNDED, whatever the offer type and the expiresDate
RevocationPrecedence ==
  (Resolved /\ resp.transaction.revocationDate # NoDate)
  => /\ resp.result.entitlement = FREE
     /\ resp.result.subscriptionStatus = REFUNDED

\* a revoked trial transaction that expires in the future has been resolved
RevokedFutureTrialResolved ==
  /\ resp.op = "analyzeJWSTransaction"
  /\ resp.transaction.revocationDate # NoDate
  /\ resp.transaction.expiresDate > now
  /\ resp.transaction.offerType = 1
  /\ resp.result.entitlement = FREE

\* C5: for an unrevoked transaction with a non-zero expiresDate the resolvers
\* yield FREE / EXPIRED exactly when now >= expiresDate and PREMIUM or TRIAL /
\* ACTIVE exactly when now < expiresDate
ExpiryBoundary ==
  (/\ Resolved
   /\ resp.transaction.revocationDate = NoDate
   /\ resp.transaction.expiresDate # NoDate)
  => LET r == resp.result
         lapsed == now >= resp.transaction.expiresDate
     IN  /\ (r.entitlement = FREE /\ r.subscriptionStatus = EXPIRED) <=> lapsed
         /\ (r.entitlement \in {PREMIUM, TRIAL} /\ r.subscriptionStatus = ACTIVE)
              <=> ~lapsed

\* the age of the record the call found
FoundAge == now - resp.cachedData.lastUpdatedAt

\* the call answered with the record it found and made no remote call
ReturnedStored ==
  /\ resp.cachedData # Null
  /\ resp.subscription = resp.cachedData
  /\ ~resp.remoteCall

\* C6: for a non-test user with no earlier call inside the duplicate window
\* and no forced refresh, checkSubscriptionStatus returns the stored record
\* without a remote call if and only if a stored record exists with
\* now - lastUpdatedAt < CACHE_TTL; at an age of CACHE_TTL or more a remote
\* call is attempted
FreshCacheExactly ==
  (/\ CheckAnswered
   /\ ~IsTestIdentity(resp.uid)
   /\ ~resp.forceRefresh
   /\ (resp.previousRequest = NoCall
       \/ now - resp.previousRequest >= DUPLICATE_CALL_PREVENTION_MS))
  => /\ ReturnedStored
          <=> (resp.cachedData # Null /\ FoundAge < CACHE_DURATION_MS)
     /\ (resp.cachedData # Null /\ FoundAge >= CACHE_DURATION_MS)
          => resp.remoteCall

\* a call of a non-test user who has a stored record and identifiers on file
StaleCase ==
  /\ CheckAnswered
  /\ ~IsTestIdentity(resp.uid)
  /\ resp.cachedData # Null
  /\ resp.transactionId # NoId

\* the call was not forced and arrived inside the duplicate window of the
\* user's last recorded call
InsideWindow ==
  /\ ~resp.forceRefresh
  /\ resp.lastCallTime # NoCall
  /\ now - resp.lastCallTime < DUPLICATE_CALL_PREVENTION_MS

\* C7 (as stated): a call made later than lastUpdatedAt + TTL by a user with
\* identifiers on file attempts a remote call, whatever calls the user made
\* before; a non-forced call made before lastUpdatedAt + TTL returns the
\* cached record without a remote call
StaleCallAlwaysGoesRemote ==
  StaleCase
  => /\ FoundAge > CACHE_DURATION_MS => resp.remoteCall
     /\ (FoundAge < CACHE_DURATION_MS /\ ~resp.forceRefresh) => ReturnedStored

\* C7 (amended): a call made later than lastUpdatedAt + TTL by a non-test user
\* with identifiers on file attempts a remote call unless it is a non-forced
\* call inside the duplicate window of the user's last recorded call, which
\* returns the stored record without a remote call; a non-forced call made
\* before lastUpdatedAt + TTL returns the stored record without a remote call
StaleCallGoesRemoteUnlessSuppressed ==
  StaleCase
  => /\ (FoundAge > CACHE_DURATION_MS /\ ~InsideWindow) => resp.remoteCall
     /\ (FoundAge > CACHE_DURATION_MS /\ InsideWindow) => ReturnedStored
     /\ (FoundAge < CACHE_DURATION_MS /\ ~resp.forceRefresh) => ReturnedStored

\* a stale call that follows earlier calls of the user has gone remote
StaleCallWentRemote ==
  /\ StaleCase
  /\ FoundAge = CACHE_DURATION_MS + TickMs
  /\ resp.previousRequest # NoCall
  /\ ~resp.forceRefresh
  /\ resp.remoteCall

\* C8: when checkSubscriptionStatus has to refresh and the remote call fails,
\* it returns the last stored record if one exists and {FREE, UNVERIFIED}
\* only when none is stored, and the stored record is left unchanged
RefreshFailureKeepsLastRecord ==
  (CheckAnswered /\ resp.remoteCall /\ ~resp.storeWrite)
  => /\ resp.cachedData # Null => resp.subscription = resp.cachedData
     /\ resp.cachedData = Null
          => /\ resp.subscription.entitlement = FREE
             /\ resp.subscription.subscriptionStatus = "unverified"
     /\ getCachedSubscriptionStatus(users, resp.uid) = resp.cachedData

\* C9: for a caller whose email is an internal test identity every
\* checkSubscriptionStatus call, a repeated call inside the duplicate window
\* and a call made while a record is stored included, returns the identity's
\* canned record with no store write and no remote call (the claim also asks
\* for no store read, counted in resp.storeReads)
TestIdentityBypassesAll ==
  (CheckAnswered /\ IsTestIdentity(resp.uid))
  => /\ resp.subscription = checkInternalTestAccount(email[resp.uid], now)
     /\ ~resp.storeWrite
     /\ ~resp.remoteCall

\* C10 (as stated): a non-forced call of a user with a stored record that
\* arrives less than DUPLICATE_WINDOW after the same user's previous request
\* returns the last known record marked as throttled and makes no remote call
AnyRecentRequestThrottles ==
  (/\ CheckAnswered
   /\ ~IsTestIdentity(resp.uid)
   /\ ~resp.forceRefresh
   /\ resp.cachedData # Null
   /\ resp.previousRequest # NoCall
   /\ now - resp.previousRequest < DUPLICATE_CALL_PREVENTION_MS)
  => /\ resp.dataSource = "duplicate-call-prevention"
     /\ ReturnedStored

\* C10 (amended): a non-forced call that arrives less than DUPLICATE_WINDOW
\* after the same user's last recorded call, a call that was not itself
\* suppressed, and finds a stored record returns that record marked
\* duplicate-call-prevention, makes no remote call and no store write, and is
\* not recorded as a call itself
RecordedCallThrottles ==
  (CheckAnswered /\ InsideWindow /\ resp.cachedData # Null)
  => /\ resp.dataSource = "duplicate-call-prevention"
     /\ ReturnedStored
     /\ ~resp.storeWrite
     /\ userCallTimestamps[resp.uid] = resp.lastCallTime

\* a call was suppressed although the record it returned had outlived the TTL
StaleCallSuppressed ==
  /\ CheckAnswered
  /\ resp.dataSource = "duplicate-call-prevention"
  /\ FoundAge > CACHE_DURATION_MS

\* the stored record of u holds every non-null field of record s
Persisted(u, s) ==
  LET subscriptionData == getUnifiedSubscriptionData(users, u)
  IN  /\ subscriptionData # Null
      /\ \A k \in DOMAIN s :
           ~IsNullField(s, k) => (Has(subscriptionData, k) /\ subscriptionData[k] = s[k])

\* C11: a checkSubscriptionStatus call with forceRefresh set, by a non-test
\* user with identifiers on file, always attempts the remote fetch of a single
\* transaction, whatever the age of the stored record and however recently the
\* user called; on success the resolver's record is returned and persisted,
\* on failure nothing is written
ForcedRefreshGoesRemote ==
  (/\ CheckAnswered
   /\ resp.forceRefresh
   /\ ~IsTestIdentity(resp.uid)
   /\ resp.transactionId # NoId)
  => /\ resp.remoteCall
     /\ resp.storeWrite
          => /\ resp.dataSource = "force-refresh"
             /\ \E tx \in Marketplace :
                  /\ tx.transactionId = resp.transactionId
                  /\ resp.subscription = createBasicSubscriptionInfo(tx, now)
             /\ Persisted(resp.uid, resp.subscription)
             /\ getUnifiedSubscriptionData(users, resp.uid).lastUpdatedAt = now
     /\ ~resp.storeWrite
          => getCachedSubscriptionStatus(users, resp.uid) = resp.cachedData

\* a forced call inside the duplicate window, on a record younger than the
\* TTL, has fetched the transaction and stored the resolved record
ForcedRefreshInsideWindow ==
  /\ CheckAnswered
  /\ resp.forceRefresh
  /\ ~IsTestIdentity(resp.uid)
  /\ resp.lastCallTime # NoCall
  /\ now - resp.lastCallTime < DUPLICATE_CALL_PREVENTION_MS
  /\ resp.cachedData # Null
  /\ FoundAge < CACHE_DURATION_MS
  /\ resp.remoteCall
  /\ resp.storeWrite

WebhookAnswered == resp.op = "appStoreNotifications"

\* the envelope of the request, or the envelope of its transaction, does not
\* carry the marketplace's signature
Unsigned(req) ==
  /\ Len(req.signedPayload) = 3
  /\ \/ req.signedPayload[3] # "signature"
     \/ /\ decodeJWS(req.signedPayload) # Null
        /\ Len(Get(Get(decodeJWS(req.signedPayload), "data", <<>>), "signedTransactionInfo", NoEnvelope)) = 3
        /\ decodeJWS(req.signedPayload).data.signedTransactionInfo[3] # "signature"

\* the request passes every check of its form and carries a transaction
Decodable(req) ==
  /\ req.method = "POST"
  /\ req.contentType = "application/json"
  /\ decodeJWS(req.signedPayload) # Null
  /\ decodeJWS(Get(Get(decodeJWS(req.signedPayload), "data", <<>>), "signedTransactionInfo", NoEnvelope)) # Null

ForeignBundle(req) ==
  /\ Decodable(req)
  /\ decodeJWS(decodeJWS(req.signedPayload).data.signedTransactionInfo).bundleId # APPSTORE_BUNDLE_ID

\* C13: a notification whose signed payload fails signature verification, or
\* whose transaction's bundle identifier differs from the configured one, is
\* rejected and no user document is written (the claim names the status 401;
\* the formula admits every 4xx status)
UntrustedNotificationRejected ==
  (/\ WebhookAnswered
   /\ \/ Decodable(resp.req) /\ Unsigned(resp.req)
      \/ ForeignBundle(resp.req))
  => /\ resp.status \in 400..499
     /\ ~resp.storeWrite

\* C14: a webhook request that is not a POST is answered 405, a POST without
\* a signedPayload is answered 400, and a request answered with a 4xx status
\* leaves every user document unchanged
InputErrorsRejectedUnchanged ==
  [][resp'.op = "appStoreNotifications"
     => /\ resp'.req.method # "POST" => resp'.status = 405
        /\ (resp'.req.method = "POST" /\ resp'.req.signedPayload = NoEnvelope)
             => resp'.status = 400
        /\ resp'.status \in 400..499 => users' = users]_vars

\* a POST without a signedPayload has been answered while a document exists
MissingPayloadAnswered ==
  /\ WebhookAnswered
  /\ resp.req.method = "POST"
  /\ resp.req.contentType = "application/json"
  /\ resp.req.signedPayload = NoEnvelope
  /\ resp.status = 400
  /\ \E u \in Uids : users[u].exists

\* no document holds the lineage, in subscriptionData or in the legacy field
NoUserHolds(originalTransactionId) ==
  \A u \in Uids :
    \/ ~users[u].exists
    \/ /\ Get(Get(users[u], "subscriptionData", <<>>), "originalTransactionId", NoId) # originalTransactionId
       /\ Get(Get(users[u], "subscription", <<>>), "originalTransactionId", NoId) # originalTransactionId

\* C15: a well-formed notification whose originalTransactionId matches no user,
\* in subscriptionData or in the legacy subscription field, is answered 200 and
\* no document is created or modified
UnknownUserAcknowledged ==
  [][(/\ resp'.op = "appStoreNotifications"
      /\ Decodable(resp'.req)
      /\ ~ForeignBundle(resp'.req)
      /\ NoUserHolds(TransactionOf(resp').originalTransactionId))
     => /\ resp'.status = 200
        /\ users' = users]_vars

\* a notification about a lineage nobody holds has been answered while a
\* document of another lineage exists
UnknownLineageAnswered ==
  /\ WebhookAnswered
  /\ Decodable(resp.req)
  /\ TransactionOf(resp).originalTransactionId = "o2"
  /\ \E u \in Uids : users[u].exists
  /\ resp.status = 200
  /\ resp.userId = NoUser
  /\ ~resp.storeWrite

\* the last webhook request was processed for a known user
ProcessedFor(u) ==
  /\ WebhookAnswered
  /\ resp.status = 200
  /\ resp.userId = u

StoredIs(u, entitlement, subscriptionStatus) ==
  /\ Has(users[u], "subscriptionData")
  /\ Get(users[u].subscriptionData, "entitlement", NullStr) = entitlement
  /\ Get(users[u].subscriptionData, "subscriptionStatus", NullStr) = subscriptionStatus

\* C16: after an EXPIRED or GRACE_PERIOD_EXPIRED notification is processed for
\* a known user the stored record is {FREE, EXPIRED}, and after a REVOKE or
\* REFUND notification it is {FREE, REFUNDED}, whatever the transaction's
\* expiresDate and the prior state
TerminalNotificationsEndAccess ==
  \A u \in Uids :
    ProcessedFor(u)
    => /\ NotificationOf(resp).notificationType \in {"EXPIRED", "GRACE_PERIOD_EXPIRED"}
          => StoredIs(u, FREE, EXPIRED)
       /\ NotificationOf(resp).notificationType \in {"REVOKE", "REFUND"}
          => StoredIs(u, FREE, REFUNDED)

RenewalOf(r) == NotificationOf(r).data.signedRenewalInfo[2]

\* the step is the processing, for u, of a notification that auto-renew was
\* switched off, about an unrevoked transaction expiring in the future
AutoRenewSwitchedOff(u) ==
  /\ resp'.op = "appStoreNotifications"
  /\ resp' # resp
  /\ resp'.status = 200
  /\ resp'.userId = u
  /\ NotificationOf(resp').notificationType = "DID_CHANGE_RENEWAL_STATUS"
  /\ RenewalOf(resp').autoRenewStatus = 0
  /\ TransactionOf(resp').revocationDate = NoDate
  /\ TransactionOf(resp').expiresDate > now

\* C17: for a user whose stored entitlement is PREMIUM and whose transaction
\* expires in the future, a DID_CHANGE_RENEWAL_STATUS notification with
\* auto-renew off leaves the stored entitlement PREMIUM and sets
\* subscriptionStatus CANCELLING and autoRenewEnabled false
CancellationKeepsPremium ==
  [][\A u \in Uids :
       (/\ Has(users[u], "subscriptionData")
        /\ Get(users[u].subscriptionData, "entitlement", NullStr) = PREMIUM
        /\ ExpirationOf(users[u].subscriptionData) > now
        /\ AutoRenewSwitchedOff(u))
       => /\ users'[u].subscriptionData.entitlement = PREMIUM
          /\ users'[u].subscriptionData.subscriptionStatus = CANCELLING
          /\ users'[u].subscriptionData.autoRenewEnabled = FALSE]_vars

\* the record without its write time
ApartFromLastUpdatedAt(subscriptionData) ==
  [k \in DOMAIN subscriptionData \ {"lastUpdatedAt"} |-> subscriptionData[k]]

\* C18: delivering the identical envelope twice for a known user leaves the
\* stored record, apart from lastUpdatedAt, equal to the record after the
\* first delivery, and lastUpdatedAt does not decrease
RedeliveryIdempotent ==
  \A u \in Uids :
    (/\ WebhookAnswered
     /\ resp.retry
     /\ resp.userId = u
     /\ Has(resp.before[u], "subscriptionData"))
    => /\ Has(users[u], "subscriptionData")
       /\ ApartFromLastUpdatedAt(users[u].subscriptionData)
            = ApartFromLastUpdatedAt(resp.before[u].subscriptionData)
       /\ users[u].subscriptionData.lastUpdatedAt
            >= resp.before[u].subscriptionData.lastUpdatedAt

\* the expiry time e is judged alike at the times t1 and t2
SameSideOfExpiry(e, t1, t2) == (e > 0 /\ e < t1) <=> (e > 0 /\ e < t2)

\* C18 (amended): delivering the identical envelope twice for a known user,
\* with neither the transaction's expiresDate nor the legacy subscription's
\* expiryDate passing between the two deliveries, leaves the stored record,
\* apart from lastUpdatedAt, equal to the record after the first delivery, and
\* lastUpdatedAt does not decrease
RedeliveryIdempotentUnlessExpiryPassed ==
  \A u \in Uids :
    (/\ WebhookAnswered
     /\ resp.retry
     /\ resp.userId = u
     /\ Has(resp.before[u], "subscriptionData")
     /\ SameSideOfExpiry(TransactionOf(resp).expiresDate,
                         resp.before[u].subscriptionData.lastUpdatedAt, now)
     /\ SameSideOfExpiry(Get(Get(users[u], "subscription", <<>>), "expiryDate", 0),
                         resp.before[u].subscriptionData.lastUpdatedAt, now))
    => /\ Has(users[u], "subscriptionData")
       /\ ApartFromLastUpdatedAt(users[u].subscriptionData)
            = ApartFromLastUpdatedAt(resp.before[u].subscriptionData)
       /\ users[u].subscriptionData.lastUpdatedAt
            >= resp.before[u].subscriptionData.lastUpdatedAt

\* a purchase notification was written again, later, with access still granted
RedeliveredLater ==
  \E u \in Uids :
    /\ WebhookAnswered
    /\ resp.retry
    /\ resp.userId = u
    /\ resp.storeWrite
    /\ Has(resp.before[u], "subscriptionData")
    /\ resp.before[u].subscriptionData.lastUpdateSource = "appStoreNotifications"
    /\ users[u].subscriptionData.lastUpdatedAt
         > resp.before[u].subscriptionData.lastUpdatedAt
    /\ users[u].subscriptionData.entitlement \in {PREMIUM, TRIAL}

\* the value the later of the two writers that supplied field k gave it
LastSupplied(k) ==
  IF resp.last = "webhook"
  THEN IF Has(resp.webhook, k) THEN resp.webhook[k] ELSE resp.sync[k]
  ELSE IF Has(resp.sync, k) THEN resp.sync[k] ELSE resp.webhook[k]

\* C19: when a webhook delivery and a syncPurchaseInfo call for the same user
\* interleave, the webhook reading the document before the other commits, the
\* writes merge field by field: the final record holds, for every field, the
\* value of the last writer that supplied that field
RacingWritesMergeByField ==
  (/\ resp.op = "race"
   /\ resp.webhook # Null
   /\ resp.sync # Null
   /\ resp.readBeforeSync)
  => LET final == users[resp.userId].subscriptionData
     IN  \A k \in DOMAIN resp.webhook \cup DOMAIN resp.sync :
           Has(final, k) /\ final[k] = LastSupplied(k)

\* the fields a store-adapter update with the partial record may change
FieldsOfUpdate(updates) ==
  {k \in DOMAIN updates : ~IsNullField(updates, k)}
    \cup {"lastUpdatedAt", "lastUpdateSource", "dataVersion"}

\* C20: a store-adapter update with a partial record changes only the fields
\* present and non-null in the partial record, plus lastUpdatedAt,
\* lastUpdateSource and dataVersion; every other field already stored in the
\* user's subscriptionData keeps its value
UpdateKeepsOtherFields ==
  (/\ CheckAnswered
   /\ resp.storeWrite
   /\ resp.cachedData # Null)
  => LET subscriptionData == getUnifiedSubscriptionData(users, resp.uid)
     IN  \A k \in DOMAIN resp.cachedData \ FieldsOfUpdate(resp.subscription) :
           Has(subscriptionData, k) /\ subscriptionData[k] = resp.cachedData[k]

\* the two records agree on field k
AgreeOn(a, b, k) ==
  /\ Has(a, k) <=> Has(b, k)
  /\ Has(a, k) => a[k] = b[k]

\* C21: once the subscriptionData record is populated, the entitlement,
\* subscriptionStatus and hasUsedTrial that the webhook and the status check
\* store do not depend on a legacy location: two documents that differ only in
\* legacy fields hold the same values after the same operations
LegacyLocationsNotConsulted ==
  \A k \in {"entitlement", "subscriptionStatus", "hasUsedTrial"} :
    AgreeOn(users["u1"].subscriptionData, users["u2"].subscriptionData, k)

\* the step is a delivery for u during which the history fetch failed
HistoryFetchFailedFor(u) ==
  /\ resp'.op = "appStoreNotifications"
  /\ resp' # resp
  /\ resp'.userId = u
  /\ resp'.history = HistoryFailure

\* C22: when the transaction-history fetch fails while a notification for a
\* known user is processed, the webhook answers 200 and leaves the stored
\* entitlement, subscriptionStatus and hasUsedTrial as they were
HistoryFailureKeepsStatusFields ==
  [][\A u \in Uids :
       (HistoryFetchFailedFor(u) /\ Has(users[u], "subscriptionData"))
       => /\ resp'.status = 200
          /\ Has(users'[u], "subscriptionData")
          /\ \A k \in {"entitlement", "subscriptionStatus", "hasUsedTrial"} :
               AgreeOn(users[u].subscriptionData, users'[u].subscriptionData, k)]_vars

SubscriptionDataOf(db, u) == Get(db[u], "subscriptionData", <<>>)

\* the step is a real-time sync of a verified transaction by a regular caller
\* during which the status fetch failed
RealTimeFetchFailed ==
  /\ resp'.op = "syncPurchaseInfo"
  /\ resp' # resp
  /\ resp'.request.auth # NoAuth
  /\ resp'.request.userId # NoUser
  /\ ~IsTestIdentity(resp'.request.auth)
  /\ verifyAndDecodeJWS(resp'.request.jwsRepresentation).success
  /\ resp'.request.checkRealTimeStatus
  /\ ~resp'.statusResult.success

\* C23: when syncPurchaseInfo is asked for real-time status and the status
\* fetch fails, the stored entitlement and subscriptionStatus keep their
\* previous values or stay absent, and the identifiers of the transaction are
\* persisted
FailedStatusFetchPersistsIdentifiersOnly ==
  [][RealTimeFetchFailed
     => LET u == resp'.request.userId
            transaction == verifyAndDecodeJWS(resp'.request.jwsRepresentation).data
        IN  /\ \A k \in {"entitlement", "subscriptionStatus"} :
                 AgreeOn(SubscriptionDataOf(users, u), SubscriptionDataOf(users', u), k)
            /\ Get(SubscriptionDataOf(users', u), "originalTransactionId", NoId)
                 = transaction.originalTransactionId
            /\ Get(SubscriptionDataOf(users', u), "lastTransactionId", NoId)
                 = transaction.transactionId]_vars


\* ---------------------------------------------------------------------
\* The App Store gateway clients (AppStoreServerClient, InAppPurchaseClient)
\* ---------------------------------------------------------------------

\* a call either returns a value or throws an Error carrying a message
Returned(value) == [thrown |-> FALSE, value |-> value]
Thrown(message) == [thrown |-> TRUE, message |-> message]

\* initialize(): a warm instance reuses its client, a cold one reads the
\* secrets and throws when one is missing
initialize(isInitialized, secrets) ==
  IF isInitialized THEN Returned("client")
  ELSE IF secrets = "missing"
  THEN Thrown("App Store Server API environment variables are not set")
  ELSE Returned("client")

\* the shared catch block of InAppPurchaseClient
handleApiError(error, context) ==
  [success |-> FALSE, error |-> <<"Apple API Error in", context, error.message>>]

\* AppStoreServerClient.getTransactionInfo with initialize() called before
\* the try block
AppStoreServerClient_getTransactionInfo_InitOutsideTry(isInitialized, secrets, remote) ==
  LET client == initialize(isInitialized, secrets)
  IN  IF client.thrown THEN client
      ELSE IF remote.thrown
      THEN Returned([success |-> FALSE, error |-> remote.message])
      ELSE IF remote.value # Null /\ Has(remote.value, "signedTransactionInfo")
      THEN Returned([success |-> TRUE, data |-> remote.value])
      ELSE Returned([success |-> FALSE, error |-> "No transaction info in response"])

AppStoreServerClient_getTransactionInfo(isInitialized, secrets, remote) ==
  LET client == initialize(isInitialized, secrets)
  IN  IF client.thrown
      THEN Returned([success |-> FALSE, error |-> client.message])
      ELSE IF remote.thrown
      THEN Returned([success |-> FALSE, error |-> remote.message])
      ELSE IF remote.value # Null /\ Has(remote.value, "signedTransactionInfo")
      THEN Returned([success |-> TRUE, data |-> remote.value])
      ELSE Returned([success |-> FALSE, error |-> "No transaction info in response"])

AppStoreServerClient_getSubscriptionStatus(isInitialized, secrets, remote) ==
  LET client == initialize(isInitialized, secrets)
  IN  IF client.thrown
      THEN Returned([success |-> FALSE, error |-> client.message])
      ELSE IF remote.thrown
      THEN Returned([success |-> FALSE, error |-> remote.message])
      ELSE IF remote.value # Null /\ Has(remote.value, "data")
      THEN Returned([success |-> TRUE, data |-> remote.value.data])
      ELSE Returned([success |-> FALSE, error |-> "No subscription status in response"])

AppStoreServerClient_getTransactionHistory(isInitialized, secrets, remote) ==
  LET client == initialize(isInitialized, secrets)
  IN  IF client.thrown
      THEN Returned([success |-> FALSE, error |-> client.message])
      ELSE IF remote.thrown
      THEN Returned([success |-> FALSE, error |-> remote.message])
      ELSE IF remote.value # Null /\ Has(remote.value, "signedTransactions")
      THEN Returned([success |-> TRUE, data |-> remote.value])
      ELSE Returned([success |-> FALSE, error |-> "No transaction history in response"])

InAppPurchaseClient_verifyJWS(isInitialized, secrets, remote) ==
  LET client == initialize(isInitialized, secrets)
  IN  IF client.thrown
      THEN Returned([success |-> FALSE, error |-> client.message])
      ELSE IF remote.thrown
      THEN Returned([success |-> FALSE, error |-> remote.message])
      ELSE Returned([success |-> TRUE, data |-> remote.value])

InAppPurchaseClient_verifySignedPayload(isInitialized, secrets, remote) ==
  LET client == initialize(isInitialized, secrets)
  IN  IF client.thrown
      THEN Returned([success |-> FALSE, error |-> client.message])
      ELSE IF remote.thrown
      THEN Returned([success |-> FALSE, error |-> remote.message])
      ELSE Returned([success |-> TRUE, data |-> remote.value])

InAppPurchaseClient_getTransactionHistory(isInitialized, secrets, remote) ==
  LET client == initialize(isInitialized, secrets)
  IN  IF client.thrown
      THEN Returned(handleApiError(client, "Transaction History"))
      ELSE IF remote.thrown
      THEN Returned(handleApiError(remote, "Transaction History"))
      ELSE Returned([success |-> TRUE, data |-> remote.value])

InAppPurchaseClient_getTransactionInfo(isInitialized, secrets, remote) ==
  LET client == initialize(isInitialized, secrets)
  IN  IF client.thrown
      THEN Returned(handleApiError(client, "Transaction"))
      ELSE IF remote.thrown
      THEN Returned(handleApiError(remote, "Transaction"))
      ELSE Returned([success |-> TRUE, data |-> remote.value])

gatewayCall(method, isInitialized, secrets, remote) ==
  CASE method = "AppStoreServerClient.getTransactionInfo" ->
         AppStoreServerClient_getTransactionInfo(isInitialized, secrets, remote)
    [] method = "AppStoreServerClient.getSubscriptionStatus" ->
         AppStoreServerClient_getSubscriptionStatus(isInitialized, secrets, remote)
    [] method = "AppStoreServerClient.getTransactionHistory" ->
         AppStoreServerClient_getTransactionHistory(isInitialized, secrets, remote)
    [] method = "InAppPurchaseClient.verifyJWS" ->
         InAppPurchaseClient_verifyJWS(isInitialized, secrets, remote)
    [] method = "InAppPurchaseClient.verifySignedPayload" ->
         InAppPurchaseClient_verifySignedPayload(isInitialized, secrets, remote)
    [] method = "InAppPurchaseClient.getTransactionHistory" ->
         InAppPurchaseClient_getTransactionHistory(isInitialized, secrets, remote)
    [] OTHER ->
         InAppPurchaseClient_getTransactionInfo(isInitialized, secrets, remote)

\* what the Apple library call behind a method may do: answer with the
\* expected field, answer without it, answer nothing, or throw an
\* APIException, a VerificationException or a network Error
RemoteOutcomes ==
  {Returned([signedTransactionInfo |-> "jws"]),
   Returned([data |-> <<>>]),
   Returned([signedTransactions |-> <<>>]),
   Returned([revision |-> "r"]),
   Returned(Null),
   Thrown(""),
   Thrown("VerificationException"),
   Thrown("socket hang up")}

\* one gateway operation runs to completion on a warm or a cold instance;
\* Secret Manager holds every secret, or at least one is empty
GatewayCall ==
  /\ resp = NoResp
  /\ \E method \in
          {"AppStoreServerClient.getTransactionInfo",
           "AppStoreServerClient.getSubscriptionStatus",
           "AppStoreServerClient.getTransactionHistory",
           "InAppPurchaseClient.verifyJWS",
           "InAppPurchaseClient.verifySignedPayload",
           "InAppPurchaseClient.getTransactionHistory",
           "InAppPurchaseClient.getTransactionInfo"},
        isInitialized \in BOOLEAN,
        secrets \in {"set", "missing"}, remote \in RemoteOutcomes :
       resp' = [op |-> "gateway", method |-> method,
                isInitialized |-> isInitialized, secrets |-> secrets,
                remote |-> remote,
                outcome |-> gatewayCall(method, isInitialized, secrets, remote)]
  /\ UNCHANGED <<now, users, email, userCallTimestamps, lastRequestAt>>

NextGateway ==
  \/ Tick
  \/ Deliver
  \/ GatewayCall

SpecGateway == Init /\ [][NextGateway]_vars

\* C24: every gateway operation answers its caller with a tagged result,
\* success with data or failure with an error, whatever the remote call and
\* the client initialisation did, and never throws
GatewayAlwaysTagged ==
  resp.op = "gateway" =>
    /\ ~resp.outcome.thrown
    /\ Has(resp.outcome.value, "success")
    /\ IF resp.outcome.value.success
       THEN Has(resp.outcome.value, "data") /\ ~Has(resp.outcome.value, "error")
       ELSE Has(resp.outcome.value, "error") /\ ~Has(resp.outcome.value, "data")

\* a cold instance without its secrets answered a tagged failure
InitialisationFailureTagged ==
  /\ resp.op = "gateway"
  /\ ~resp.isInitialized
  /\ resp.secrets = "missing"
  /\ resp.method = "AppStoreServerClient.getTransactionInfo"
  /\ ~resp.outcome.thrown
  /\ ~resp.outcome.value.success


\* the response in resp answers a call that carried no authentication
UnauthenticatedCall(r) ==
  \/ r.op = "syncPurchaseInfo" /\ r.uid = NoAuth
  \/ r.op = "subCheckSubscriptionStatus" /\ Has(r, "auth") /\ r.auth = NoAuth

\* the category of the HttpsError the caller receives, NullStr when the call
\* was answered instead
RejectedAs(r) ==
  IF r.op = "syncPurchaseInfo" THEN r.outcome ELSE r.thrown

\* the call left the store, the marketplace and the call timestamps alone
NoEffects(r) ==
  /\ ~r.storeWrite
  /\ r.op = "subCheckSubscriptionStatus" => r.storeReads = 0 /\ ~r.remoteCall

\* C25: a call without authentication to either callable is rejected as
\* unauthenticated, reads and writes no document, makes no remote call and
\* records no call timestamp
UnauthenticatedRejectedWithoutEffects ==
  [][(resp = NoResp /\ UnauthenticatedCall(resp'))
       => /\ RejectedAs(resp') = "unauthenticated"
          /\ NoEffects(resp')
          /\ users' = users
          /\ userCallTimestamps' = userCallTimestamps
          /\ lastRequestAt' = lastRequestAt]_vars


\* the envelope is not three parts, or its payload is not base64url JSON, or
\* the payload lacks a required field
EnvelopeDefect(jws) ==
  IF Len(jws) # 3 THEN "part-count"
  ELSE IF jws[2] = Garbage THEN "encoding"
  ELSE IF \/ Get(jws[2], "transactionId", NoId) = NoId
          \/ Get(jws[2], "originalTransactionId", NoId) = NoId
          \/ ~Has(jws[2], "productId")
  THEN "missing-field"
  ELSE "none"

\* an authenticated regular caller named a user and supplied an envelope
ReachesDecoder(r) ==
  /\ r.op = "syncPurchaseInfo"
  /\ r.uid # NoAuth
  /\ r.userId # NoUser
  /\ r.request.jwsRepresentation # NoEnvelope

\* C26: an envelope that has not exactly three parts, or whose payload does
\* not parse, or that lacks transactionId, originalTransactionId or
\* productId fails to decode, and syncPurchaseInfo then rejects the call as
\* invalid-argument and leaves every document as it was
UndecodableEnvelopeRejected ==
  [][(resp = NoResp /\ ReachesDecoder(resp')
        /\ EnvelopeDefect(resp'.request.jwsRepresentation) # "none")
       => /\ ~verifyAndDecodeJWS(resp'.request.jwsRepresentation).success
          /\ resp'.outcome = "invalid-argument"
          /\ ~resp'.storeWrite
          /\ users' = users]_vars

\* an envelope without productId was rejected
MissingProductIdRejected ==
  /\ ReachesDecoder(resp)
  /\ Len(resp.request.jwsRepresentation) = 3
  /\ resp.request.jwsRepresentation[2] # Garbage
  /\ ~Has(resp.request.jwsRepresentation[2], "productId")
  /\ resp.outcome = "invalid-argument"


\* C27: the status of the webhook's response follows from the outcome: 405
\* for a method other than POST, 400 for input that is malformed or carries
\* another bundle id, 200 otherwise, the unknown user and the unhandled type
\* included; the store of this model never fails, so no response is a 500
StatusFollowsOutcome ==
  WebhookAnswered =>
    resp.status = IF resp.req.method # "POST" THEN 405
                  ELSE IF ~Decodable(resp.req) \/ ForeignBundle(resp.req) THEN 400
                  ELSE 200


\* C28: syncPurchaseInfo writes only the document of the authenticated
\* caller: a call leaves the document of every other user as it was
SyncWritesCallerDocumentOnly ==
  [][(resp = NoResp /\ resp'.op = "syncPurchaseInfo")
       => /\ resp'.storeWrite => resp'.userId = resp'.uid
          /\ \A u \in Uids : u # resp'.uid => users'[u] = users[u]]_vars


\* a transaction that the call in r processed carries the trial offer type
ProcessedTrialTransaction(r) ==
  \/ verifyAndDecodeJWS(r.request.jwsRepresentation).data.offerType \in {1, 5}
  \/ /\ r.request.checkRealTimeStatus
     /\ r.statusResult.success
     /\ \E i \in DOMAIN r.statusResult.data :
          decodeJWS(r.statusResult.data[i].signedTransactionInfo).offerType \in {1, 5}

\* C29: after a syncPurchaseInfo call that persists a record, the stored
\* hasUsedTrial is the previously stored value OR-ed with whether a processed
\* transaction carries the trial offer type
HasUsedTrialAccumulates ==
  [][(resp = NoResp /\ resp'.op = "syncPurchaseInfo" /\ resp'.storeWrite)
       => \A u \in Uids :
            u = resp'.userId
              => (StoredHasUsedTrial(u)'
                    = (StoredHasUsedTrial(u) \/ ProcessedTrialTransaction(resp')))]_vars


\* the history the webhook fetched holds a transaction with the trial offer
\* type
HistoryShowsTrial(history) ==
  /\ history # Null
  /\ history.success
  /\ \E i \in DOMAIN history.data.signedTransactions :
       decodeJWS(history.data.signedTransactions[i]).offerType = 5

\* C30: when the webhook has resolved and stored a notification and the
\* transaction history it fetched for the lineage holds a transaction with
\* the trial offer type, the stored hasUsedTrial is true
TrialInHistoryStored ==
  (WebhookAnswered /\ resp.storeWrite /\ HistoryShowsTrial(resp.history))
    => StoredHasUsedTrial(resp.userId)


\* the lineage whose identifier the stored subscriptionData of u carries
StoredLineage(u) ==
  IF ~users[u].exists THEN NoId
  ELSE Get(SubscriptionDataOf(users, u), "originalTransactionId", NoId)

\* C31: at every time at most one user document carries a given
\* originalTransactionId in its subscriptionData
LineageHeldByOneUser ==
  \A u, v \in Uids :
    (u # v /\ StoredLineage(u) # NoId) => StoredLineage(u) # StoredLineage(v)


\* the record is consistent: no access with a terminal status
ConsistentRecord(s) ==
  /\ Get(s, "subscriptionStatus", ACTIVE) \in {EXPIRED, REFUNDED}
       => Get(s, "entitlement", FREE) = FREE
  /\ Get(s, "entitlement", FREE) \in {PREMIUM, TRIAL}
       => Get(s, "subscriptionStatus", ACTIVE) \in {ACTIVE, CANCELLING}

\* C32: in every record that the webhook, the client sync or the status check
\* has written, subscriptionStatus EXPIRED or REFUNDED goes with entitlement
\* FREE, and entitlement PREMIUM or TRIAL goes with subscriptionStatus ACTIVE
\* or CANCELLING
StoredRecordsConsistent ==
  \A u \in Uids :
    (users[u].exists /\ Has(users[u], "subscriptionData"))
      => ConsistentRecord(users[u].subscriptionData)


\* the status check has stored a record that is expired and free
ExpiredFreeRecordStored ==
  /\ resp.op = "checkSubscriptionStatus"
  /\ resp.storeWrite
  /\ users[resp.uid].subscriptionData.subscriptionStatus = EXPIRED
  /\ users[resp.uid].subscriptionData.entitlement = FREE


---------------------------------------------------------------------------
(* One regular user with identifiers on file polls the status check without *)
(* forcing, the marketplace answers every call, over a span longer than the  *)
(* cache lifetime plus the duplicate window                                  *)

LongTicks == MaxTicks + 3

InitPolling ==
  /\ now = StartTime
  /\ users = [u \in Uids |->
                IF u \in Callers
                THEN [id |-> u, exists |-> TRUE, subscriptionData |-> MigratedData]
                ELSE NoDoc(u)]
  /\ email = [u \in Uids |-> RegularEmail]
  /\ userCallTimestamps = [u \in Uids |-> NoCall]
  /\ lastRequestAt = [u \in Uids |-> NoCall]
  /\ resp = NoResp

TickPolling ==
  /\ resp = NoResp
  /\ now < StartTime + LongTicks * TickMs
  /\ now' = now + TickMs
  /\ UNCHANGED <<users, email, userCallTimestamps, lastRequestAt, resp>>

\* a call without forceRefresh that the marketplace would answer
PollSubscriptionStatus ==
  /\ resp = NoResp
  /\ \E userId \in Callers :
       \E tx \in {x \in Marketplace :
                    x.transactionId = refreshTransactionId(users, userId)} :
         subCheckSubscriptionStatus(userId, FALSE, [success |-> TRUE, data |-> tx])

NextPolling ==
  \/ TickPolling
  \/ Deliver
  \/ PollSubscriptionStatus

SpecPolling == InitPolling /\ [][NextPolling]_vars

\* the age of the stored record that a call returned without a remote call
ReturnedAge == now - resp.subscription.lastUpdatedAt

ReturnedStoredRecord ==
  /\ resp.op = "checkSubscriptionStatus"
  /\ resp.dataSource \in {"cache", "duplicate-call-prevention"}
  /\ ~resp.remoteCall

---------------------------------------------------------------------------
(* The resolvers that work from the marketplace's subscription statuses and *)
(* the transaction history of the lineage                                   *)

\* decodeTransactionJWT: the payload tagged with success
decodeTransactionJWT(signedTransaction) ==
  LET parsedPayload == decodeJWS(signedTransaction)
  IN  IF parsedPayload = Null THEN [success |-> FALSE]
      ELSE [success |-> TRUE, data |-> parsedPayload]

\* checkSubscriptionStatus.js: whether a transaction of the fetched history
\* has offerType 5
checkSubscriptionStatus_checkTrialUsageFromHistory(historyResult) ==
  /\ historyResult.success
  /\ \E i \in DOMAIN historyResult.data.signedTransactions :
       LET decodedTransaction ==
             decodeTransactionJWT(historyResult.data.signedTransactions[i])
       IN  decodedTransaction.success /\ decodedTransaction.data.offerType = 5

\* checkSubscriptionStatus.js: the entries of lastTransactions applied in
\* array order, each on top of the result of the one before
RECURSIVE checkSubscriptionStatus_analyzeFrom(_, _, _, _)
checkSubscriptionStatus_analyzeFrom(result, lastTransactions, i, t) ==
  IF i > Len(lastTransactions) THEN result
  ELSE LET decodedTransaction ==
             decodeTransactionJWT(lastTransactions[i].signedTransactionInfo)
           dated ==
             IF decodedTransaction.success /\ decodedTransaction.data.expiresDate > 0
             THEN [result EXCEPT
                     !.expirationDate = Str(decodedTransaction.data.expiresDate)]
             ELSE result
       IN  checkSubscriptionStatus_analyzeFrom(
             analyzeLastTransaction(dated, lastTransactions[i], t),
             lastTransactions, i + 1, t)

checkSubscriptionStatus_analyzeSubscriptionStatuses(lastTransactions, historyResult, t) ==
  LET result == [entitlement |-> FREE, subscriptionStatus |-> ACTIVE,
                 hasUsedTrial |-> FALSE, autoRenewEnabled |-> FALSE,
                 subscriptionType |-> NullStr, expirationDate |-> JsNull]
      \* getOriginalTransactionId: the lineage of the first entry, NoId when
      \* it does not decode
      firstTransaction ==
        decodeTransactionJWT(lastTransactions[1].signedTransactionInfo)
      originalTransactionId ==
        IF firstTransaction.success
        THEN firstTransaction.data.originalTransactionId ELSE NoId
      traced ==
        IF originalTransactionId # NoId
        THEN [result EXCEPT !.hasUsedTrial =
                checkSubscriptionStatus_checkTrialUsageFromHistory(historyResult)]
        ELSE result
  IN  IF Len(lastTransactions) = 0 THEN result
      ELSE checkSubscriptionStatus_analyzeFrom(traced, lastTransactions, 1, t)

\* the trial of lineage o1, under either offer type that the resolvers of the
\* repository treat as a trial, and the monthly transaction that follows it
TrialTransactions ==
  {Purchase("t1", offerType, StartTime + 2 * TickMs, NoDate) :
     offerType \in {1, 5}}

MonthlyTransaction == Purchase("t2", NoOffer, StartTime + 4 * TickMs, NoDate)

\* lastTransactions of one or two entries, each the marketplace's status
\* code with the signed transaction
LastTransactionLists ==
  LET StatusEntries ==
        {[status |-> status, signedTransactionInfo |-> Envelope(tx)] :
           status \in {1, 2, 5}, tx \in TrialTransactions \cup {MonthlyTransaction}}
  IN  {<<a>> : a \in StatusEntries} \cup {<<a, b>> : a, b \in StatusEntries}

LineageHistories ==
  {HistoryFailure, HistoryOf(<<Envelope(MonthlyTransaction)>>)}
    \cup {HistoryOf(<<Envelope(trial), Envelope(MonthlyTransaction)>>) :
            trial \in TrialTransactions}

\* both resolvers run on the same statuses at the current time
ResolveLineage ==
  /\ resp = NoResp
  /\ \E lastTransactions \in LastTransactionLists, historyResult \in LineageHistories :
       resp' = [op |-> "analyzeSubscriptionStatuses",
                lastTransactions |-> lastTransactions,
                history |-> historyResult,
                result |-> checkSubscriptionStatus_analyzeSubscriptionStatuses(
                             lastTransactions, historyResult, now),
                syncResult |-> analyzeSubscriptionStatuses(lastTransactions, now)]
  /\ UNCHANGED <<now, users, email, userCallTimestamps, lastRequestAt>>

\* subscription/planStatusLogic.js: the record resolved from the extracted
\* subscription info at time t; currentPlan is <<"free">> or <<"premium", period>>
determinePlanStatus(info, t) ==
  LET isExpired == info.expirationDate # NoDate /\ info.expirationDate < t
      entitlement ==
        IF info.isFreeTrial /\ (info.isActive \/ ~isExpired) THEN TRIAL
        ELSE IF info.currentPlan[1] = "premium" /\ (info.isActive \/ ~isExpired)
        THEN PREMIUM
        ELSE FREE
      subscriptionStatus ==
        IF info.revocationDate # NoDate THEN REFUNDED
        ELSE IF isExpired THEN EXPIRED
        ELSE IF ~info.autoRenewStatus /\ (info.isActive \/ entitlement # FREE)
        THEN CANCELLING
        ELSE IF ~info.isActive /\ ~isExpired THEN CANCELLED
        ELSE ACTIVE
  IN  [entitlement |-> entitlement,
       subscriptionStatus |-> subscriptionStatus,
       hasUsedTrial |-> info.hasEverUsedTrial \/ info.isFreeTrial,
       autoRenewEnabled |-> info.autoRenewStatus,
       expirationDate |-> IF info.expirationDate # NoDate
                          THEN Num(info.expirationDate) ELSE JsNull]

\* determinePlanStatus runs on every combination of its inputs
ResolvePlanStatus ==
  /\ resp = NoResp
  /\ \E info \in [currentPlan : {<<"free">>, <<"premium", "monthly">>},
                   isActive : BOOLEAN, isFreeTrial : BOOLEAN,
                   autoRenewStatus : BOOLEAN, expirationDate : ExpiresDates,
                   revocationDate : RevocationDates, hasEverUsedTrial : {FALSE}] :
       resp' = [op |-> "determinePlanStatus", info |-> info,
                result |-> determinePlanStatus(info, now)]
  /\ UNCHANGED <<now, users, email, userCallTimestamps, lastRequestAt>>

NextLineage ==
  \/ Tick
  \/ Deliver
  \/ ResolveLineage
  \/ ResolvePlanStatus

SpecLineage == InitResolver /\ [][NextLineage]_vars

LineageResolved == resp.op = "analyzeSubscriptionStatuses"

\* C34: the history holds a trial transaction that has expired and then the
\* monthly transaction, unrevoked and unexpired, which the marketplace
\* reports as active: the resolution has hasUsedTrial true, entitlement
\* PREMIUM and subscriptionType monthly
TrialThenUpgradeResolved ==
  (/\ LineageResolved
   /\ resp.lastTransactions
        = <<[status |-> 1, signedTransactionInfo |-> Envelope(MonthlyTransaction)]>>
   /\ \E trial \in TrialTransactions :
        /\ resp.history = HistoryOf(<<Envelope(trial), Envelope(MonthlyTransaction)>>)
        /\ trial.expiresDate < now
   /\ now < MonthlyTransaction.expiresDate)
  => /\ resp.result.hasUsedTrial
     /\ resp.result.entitlement = PREMIUM
     /\ resp.result.subscriptionType = "monthly"


\* the entitlement, status and expiry of a resolution
Standing(result) ==
  <<result.entitlement, result.subscriptionStatus, result.expirationDate>>

\* C35: the entitlement, subscriptionStatus and expirationDate resolved from
\* the statuses are the same whichever way round the same two different
\* transactions are listed, in the status check's resolver and in the sync's
ResolutionIgnoresOrder ==
  (/\ LineageResolved
   /\ Len(resp.lastTransactions) = 2
   /\ decodeJWS(resp.lastTransactions[1].signedTransactionInfo).transactionId
        # decodeJWS(resp.lastTransactions[2].signedTransactionInfo).transactionId)
  => LET swapped == <<resp.lastTransactions[2], resp.lastTransactions[1]>>
     IN  /\ Standing(resp.result)
              = Standing(checkSubscriptionStatus_analyzeSubscriptionStatuses(
                           swapped, resp.history, now))
         /\ Standing(resp.syncResult)
              = Standing(analyzeSubscriptionStatuses(swapped, now))


\* C37: determinePlanStatus resolves entitlement FREE and subscriptionStatus
\* REFUNDED whenever revocationDate is present, whatever the other inputs are
PlanStatusRevocationFirst ==
  (resp.op = "determinePlanStatus" /\ resp.info.revocationDate # NoDate)
  => /\ resp.result.entitlement = FREE
     /\ resp.result.subscriptionStatus = REFUNDED



\* C36: for the same decoded transaction at the same time the record
\* analyzeJWSTransaction resolves has the entitlement, the subscriptionStatus
\* and the subscriptionType of the record createBasicSubscriptionInfo resolves
SingleTransactionResolversAgree ==
  (resp.op = "analyzeJWSTransaction")
  => LET other == createBasicSubscriptionInfo(resp.transaction, now)
     IN  /\ resp.result.entitlement = other.entitlement
         /\ resp.result.subscriptionStatus = other.subscriptionStatus
         /\ resp.result.subscriptionType = other.subscriptionType



\* C38: a notification the webhook processes for the user it found is
\* resolved without a fetch of the transaction history when its type is
\* SUBSCRIBED, DID_RENEW, DID_CHANGE_RENEWAL_STATUS or PRICE_INCREASE, and
\* with a fetch of the history when it is of any other type
HistoryFetchedByNotificationType ==
  (resp.op = "appStoreNotifications" /\ resp.userId # NoUser)
  => IF NotificationOf(resp).notificationType
          \in {"SUBSCRIBED", "DID_RENEW", "DID_CHANGE_RENEWAL_STATUS", "PRICE_INCREASE"}
     THEN resp.history = Null
     ELSE resp.history # Null



\* the subscriptionType a substring match on the productId gives
TypeOfProduct(productId) ==
  IF includes(productId, "yearly") THEN "yearly"
  ELSE IF includes(productId, "monthly") THEN "monthly"
  ELSE NullStr

\* C39: in every resolver (client sync, status check, webhook) the resolved
\* subscriptionType is yearly when the productId contains "yearly", monthly
\* when it contains "monthly", and null otherwise
SubscriptionTypeFollowsProduct ==
  (resp.op \in {"analyzeJWSTransaction", "createBasicSubscriptionInfo",
                "convertToNewStructure"})
  => resp.result.subscriptionType = TypeOfProduct(resp.transaction.productId)

===========================================================================
